---- MODULE Spec2Model ----
(***************************************************************************)
(* Model of the sequential multi-agent hand-off orchestrator of            *)
(* langchain/4_multi_agent.py: the four travel-planning agents, the        *)
(* TravelPlanningOrchestrator and the caller's operations on it.           *)
(*                                                                         *)
(* Text is modelled character by character: a text is a sequence of        *)
(* one-character strings, so that formatting, concatenation, lower-casing  *)
(* and substring tests are computed the way the code computes them.  A     *)
(* pictograph of a message prefix is one element named by its code point.  *)
(* Console output (print) is not state and is not modelled.                *)
(*                                                                         *)
(* Two further scripts are modelled next to it, each with variables of its *)
(* own: execute_tool_calls of langchain/2_manual_tool_calling.py and the   *)
(* chat loop of langchain/5_multi_agent.py, of whose console output the    *)
(* supervisor's messages are recorded.                                     *)
(***************************************************************************)
EXTENDS Integers, Sequences, FiniteSets, TLC

(***************************************************************************)
(* Bounds of the model.                                                    *)
(***************************************************************************)
\* The caller starts a process_travel_request call only while the calls
\* before it made at most this many agent invocations in all (two whole
\* chains fit; a third call follows short ones only).
MaxPriorInvocations == 4
\* The same bound for the caller's session, where summaries and exports come
\* between the calls.
MaxSessionPriorInvocations == 3
\* Padding around the keyword in the inputs of direct process calls.
MaxPad == 1

\* The model's first response requests at most this many tool calls.
MaxToolCalls == 2
\* A streamed chunk holds at most this many messages.
MaxMessages == 2
\* The stream of one user turn yields at most this many chunks.
MaxChunks == 3

\* max_iterations of process_travel_request.
MAX_ITERATIONS == 10

None == "None"

(***************************************************************************)
(* Text.                                                                   *)
(***************************************************************************)
RECURSIVE TextsUpTo(_, _)
TextsUpTo(alphabet, n) ==
    IF n = 0 THEN { << >> }
    ELSE LET shorter == TextsUpTo(alphabet, n - 1)
         IN  shorter \cup { s \o <<c>> : s \in shorter, c \in alphabet }

UpperCase == << "A", "B", "C", "D", "E", "F", "G", "H", "I", "J", "K", "L", "M", "N", "O", "P", "Q",
       "R", "S", "T", "U", "V", "W", "X", "Y", "Z" >>
LowerCase == << "a", "b", "c", "d", "e", "f", "g", "h", "i", "j", "k", "l", "m", "n", "o", "p", "q",
       "r", "s", "t", "u", "v", "w", "x", "y", "z" >>

\* str.lower() on one character: cased letters map to lower case, every other
\* character is kept.
LowerChar(c) ==
    IF \E i \in 1..Len(UpperCase) : UpperCase[i] = c
    THEN LowerCase[CHOOSE i \in 1..Len(UpperCase) : UpperCase[i] = c]
    ELSE c

\* Mutant of Lower: the text is compared as it is.
Lower_CaseSensitive(text) == text

\* str.lower()
Lower(text) == [i \in 1..Len(text) |-> LowerChar(text[i])]

\* sub in text
Contains(text, sub) ==
    \E i \in 1..(Len(text) - Len(sub) + 1) :
        SubSeq(text, i, i + Len(sub) - 1) = sub

\* sep.join(items)
RECURSIVE Join(_, _)
Join(sep, items) ==
    IF Len(items) = 0 THEN << >>
    ELSE IF Len(items) = 1 THEN items[1]
    ELSE items[1] \o sep \o Join(sep, Tail(items))

DigitChars == << "0", "1", "2", "3", "4", "5", "6", "7", "8", "9" >>

\* Decimal digits of a natural number.
RECURSIVE Digits(_)
Digits(n) ==
    IF n < 10 THEN << DigitChars[n + 1] >>
    ELSE Digits(n \div 10) \o << DigitChars[(n % 10) + 1] >>

\* format(n, "d") / str(n) of an int
IntToText(n) == IF n < 0 THEN << "-" >> \o Digits(-n) ELSE Digits(n)

\* Digits of a natural number with "," between groups of three.
RECURSIVE Grouped(_)
Grouped(n) ==
    IF n < 1000 THEN Digits(n)
    ELSE LET low == n % 1000
             pad == IF low < 10 THEN << "0", "0" >> ELSE IF low < 100 THEN << "0" >> ELSE << >>
         IN  Grouped(n \div 1000) \o << "," >> \o pad \o Digits(low)

\* format(x, ",.2f") of an amount of money given in cents.
FormatMoney(cents) ==
    LET a    == IF cents < 0 THEN -cents ELSE cents
        frac == a % 100
    IN  (IF cents < 0 THEN << "-" >> ELSE << >>)
        \o Grouped(a \div 100) \o << "." >>
        \o (IF frac < 10 THEN << "0" >> ELSE << >>) \o Digits(frac)

(***************************************************************************)
(* AgentType, TravelRequest, AgentResponse.                                *)
(***************************************************************************)
TRAVEL_PLANNER      == "travel_planner"
BUDGET_ANALYST      == "budget_analyst"
ACTIVITY_SPECIALIST == "activity_specialist"
BOOKING_COORDINATOR == "booking_coordinator"

AgentType == { TRAVEL_PLANNER, BUDGET_ANALYST, ACTIVITY_SPECIALIST, BOOKING_COORDINATOR }

\* AgentType.value as text
AgentTypeValue(a) ==
    CASE a = TRAVEL_PLANNER      -> << "t", "r", "a", "v", "e", "l", "_", "p", "l", "a", "n", "n", "e", "r" >>
      [] a = BUDGET_ANALYST      -> << "b", "u", "d", "g", "e", "t", "_", "a", "n", "a", "l", "y", "s", "t" >>
      [] a = ACTIVITY_SPECIALIST -> << "a", "c", "t", "i", "v", "i", "t", "y", "_", "s", "p", "e", "c", "i", "a", "l", "i",
       "s", "t" >>
      [] a = BOOKING_COORDINATOR -> << "b", "o", "o", "k", "i", "n", "g", "_", "c", "o", "o", "r", "d", "i", "n", "a", "t",
       "o", "r" >>

\* datetime.now().isoformat(): the wall clock is not modelled, the field is.
Timestamp == "datetime.now().isoformat()"

\* AgentResponse(agent_type, message, data, next_agent, handoff_reason)
AgentResponse(agent_type, message, data, next_agent, handoff_reason) ==
    [ agent_type     |-> agent_type,
      message        |-> message,
      data           |-> data,
      next_agent     |-> next_agent,
      handoff_reason |-> handoff_reason ]

\* A TravelRequest.  Python does not enforce the declared field types: budget
\* is a float (kept in cents) or an object of another type, interests a list
\* of texts or an object that is no iterable.
TravelRequest(destination, travel_dates, budget, travelers, interests, accommodation_type) ==
    [ destination        |-> destination,
      travel_dates       |-> travel_dates,
      budget             |-> budget,
      travelers          |-> travelers,
      interests          |-> interests,
      accommodation_type |-> accommodation_type ]

Float(cents)  == [ type |-> "float", cents |-> cents ]
StrObject     == [ type |-> "str", cents |-> 0 ]
List(items)   == [ type |-> "list", items |-> items ]
NoneObject    == [ type |-> "NoneType", items |-> << >> ]

\* The fields have the types the dataclass declares.
WellTyped(request) ==
    request.budget.type = "float" /\ request.interests.type = "list"

\* Outcome of a call: a value returned or an exception raised (str(e) kept).
Returned(value) == [ raised |-> FALSE, value |-> value ]
Raised(error)   == [ raised |-> TRUE, value |-> error ]

(***************************************************************************)
(* The agents.  A completion outcome is what self.chain.invoke does: it    *)
(* returns a text or raises an exception.                                  *)
(***************************************************************************)
\* Agent classes.  An agent is its class and, for the configurable agent, the
\* successor it names.
Agent(class, successor) == [ class |-> class, successor |-> successor ]

TravelPlannerAgent      == Agent("TravelPlannerAgent", None)
BudgetAnalystAgent      == Agent("BudgetAnalystAgent", None)
ActivitySpecialistAgent == Agent("ActivitySpecialistAgent", None)
BookingCoordinatorAgent == Agent("BookingCoordinatorAgent", None)
\* BaseAgent itself: process is not implemented.
BaseAgent               == Agent("BaseAgent", None)

\* needs_budget_analysis of TravelPlannerAgent.process
needs_budget_analysis(input_data) ==
    Contains(Lower(input_data), << "b", "u", "d", "g", "e", "t" >>) \/ Contains(input_data, << "$" >>)

\* Mutant of TravelPlannerProcess: the hand-off is decided from the
\* completion's text.
TravelPlannerProcess_DecidesFromCompletion(input_data, completion) ==
    IF ~completion.raised
    THEN AgentResponse(TRAVEL_PLANNER,
                       << "U+1F5FA", "U+FE0F", " ", "T", "r", "a", "v", "e", "l", " ", "P", "l", "a", "n", "n",
       "e", "r", ":", " " >> \o completion.value,
                       [ preliminary_plan |-> completion.value,
                         timestamp        |-> Timestamp,
                         analysis_needed  |-> << "budget", "activities", "booking" >> ],
                       IF needs_budget_analysis(completion.value)
                       THEN BUDGET_ANALYST ELSE ACTIVITY_SPECIALIST,
                       IF needs_budget_analysis(completion.value)
                       THEN "Budget analysis required" ELSE "Activity planning required")
    ELSE AgentResponse(TRAVEL_PLANNER,
                       << "U+274C", " ", "E", "r", "r", "o", "r", " ", "i", "n", " ", "t", "r", "a", "v", "e",
       "l", " ", "p", "l", "a", "n", "n", "i", "n", "g", ":", " " >> \o completion.value,
                       [ error |-> completion.value ], None, None)

\* TravelPlannerAgent.process
TravelPlannerProcess(input_data, completion) ==
    IF ~completion.raised
    THEN LET response == completion.value
             data == [ preliminary_plan |-> response,
                       timestamp        |-> Timestamp,
                       analysis_needed  |-> << "budget", "activities", "booking" >> ]
             next_agent == IF needs_budget_analysis(input_data)
                           THEN BUDGET_ANALYST ELSE ACTIVITY_SPECIALIST
             handoff_reason == IF needs_budget_analysis(input_data)
                               THEN "Budget analysis required"
                               ELSE "Activity planning required"
         IN  AgentResponse(TRAVEL_PLANNER,
                           << "U+1F5FA", "U+FE0F", " ", "T", "r", "a", "v", "e", "l", " ", "P", "l", "a", "n", "n",
       "e", "r", ":", " " >> \o response,
                           data, next_agent, handoff_reason)
    ELSE AgentResponse(TRAVEL_PLANNER,
                       << "U+274C", " ", "E", "r", "r", "o", "r", " ", "i", "n", " ", "t", "r", "a", "v", "e",
       "l", " ", "p", "l", "a", "n", "n", "i", "n", "g", ":", " " >> \o completion.value,
                       [ error |-> completion.value ], None, None)

\* Mutant of BudgetAnalystProcess: on success it hands off to the
\* BOOKING_COORDINATOR.
BudgetAnalystProcess_SkipsActivities(input_data, completion) ==
    IF ~completion.raised
    THEN AgentResponse(BUDGET_ANALYST,
                       << "U+1F4B0", " ", "B", "u", "d", "g", "e", "t", " ", "A", "n", "a", "l", "y", "s", "t",
       ":", " " >> \o completion.value,
                       [ budget_analysis |-> completion.value,
                         cost_categories |-> << "flights", "accommodation", "food",
                                                "activities", "transportation" >>,
                         budget_status   |-> "analyzed",
                         timestamp       |-> Timestamp ],
                       BOOKING_COORDINATOR,
                       "Budget analyzed, now planning activities within budget constraints")
    ELSE AgentResponse(BUDGET_ANALYST,
                       << "U+274C", " ", "E", "r", "r", "o", "r", " ", "i", "n", " ", "b", "u", "d", "g", "e",
       "t", " ", "a", "n", "a", "l", "y", "s", "i", "s", ":", " " >> \o completion.value,
                       [ error |-> completion.value ], None, None)

\* Mutant of BudgetAnalystProcess: the except branch reports the failure in
\* the message only.
BudgetAnalystProcess_ErrorOnlyInMessage(input_data, completion) ==
    IF ~completion.raised
    THEN AgentResponse(BUDGET_ANALYST,
                       << "U+1F4B0", " ", "B", "u", "d", "g", "e", "t", " ", "A", "n", "a", "l", "y", "s", "t",
       ":", " " >> \o completion.value,
                       [ budget_analysis |-> completion.value,
                         cost_categories |-> << "flights", "accommodation", "food",
                                                "activities", "transportation" >>,
                         budget_status   |-> "analyzed",
                         timestamp       |-> Timestamp ],
                       ACTIVITY_SPECIALIST,
                       "Budget analyzed, now planning activities within budget constraints")
    ELSE AgentResponse(BUDGET_ANALYST,
                       << "U+274C", " ", "E", "r", "r", "o", "r", " ", "i", "n", " ", "b", "u", "d", "g", "e",
       "t", " ", "a", "n", "a", "l", "y", "s", "i", "s", ":", " " >> \o completion.value,
                       [ timestamp |-> Timestamp ], None, None)

\* BudgetAnalystAgent.process
BudgetAnalystProcess(input_data, completion) ==
    IF ~completion.raised
    THEN LET response == completion.value
             data == [ budget_analysis |-> response,
                       cost_categories |-> << "flights", "accommodation", "food",
                                              "activities", "transportation" >>,
                       budget_status   |-> "analyzed",
                       timestamp       |-> Timestamp ]
         IN  AgentResponse(BUDGET_ANALYST,
                           << "U+1F4B0", " ", "B", "u", "d", "g", "e", "t", " ", "A", "n", "a", "l", "y", "s", "t",
       ":", " " >> \o response,
                           data, ACTIVITY_SPECIALIST,
                           "Budget analyzed, now planning activities within budget constraints")
    ELSE AgentResponse(BUDGET_ANALYST,
                       << "U+274C", " ", "E", "r", "r", "o", "r", " ", "i", "n", " ", "b", "u", "d", "g", "e",
       "t", " ", "a", "n", "a", "l", "y", "s", "i", "s", ":", " " >> \o completion.value,
                       [ error |-> completion.value ], None, None)

\* Mutant of ActivitySpecialistProcess: the except branch names a successor.
ActivitySpecialistProcess_ErrorHandsOff(input_data, completion) ==
    IF ~completion.raised
    THEN AgentResponse(ACTIVITY_SPECIALIST,
                       << "U+1F3AF", " ", "A", "c", "t", "i", "v", "i", "t", "y", " ", "S", "p", "e", "c", "i",
       "a", "l", "i", "s", "t", ":", " " >> \o completion.value,
                       [ activity_plan    |-> completion.value,
                         activity_types   |-> << "cultural", "adventure", "relaxation",
                                                 "dining", "shopping" >>,
                         schedule_created |-> TRUE,
                         timestamp        |-> Timestamp ],
                       BOOKING_COORDINATOR,
                       "Activities planned, ready for booking coordination")
    ELSE AgentResponse(ACTIVITY_SPECIALIST,
                       << "U+274C", " ", "E", "r", "r", "o", "r", " ", "i", "n", " ", "a", "c", "t", "i", "v",
       "i", "t", "y", " ", "p", "l", "a", "n", "n", "i", "n", "g", ":", " " >> \o completion.value,
                       [ error |-> completion.value ], BOOKING_COORDINATOR, None)

\* Mutant of ActivitySpecialistProcess: on success it names its own role.
ActivitySpecialistProcess_NamesItself(input_data, completion) ==
    IF ~completion.raised
    THEN AgentResponse(ACTIVITY_SPECIALIST,
                       << "U+1F3AF", " ", "A", "c", "t", "i", "v", "i", "t", "y", " ", "S", "p", "e", "c", "i",
       "a", "l", "i", "s", "t", ":", " " >> \o completion.value,
                       [ activity_plan    |-> completion.value,
                         activity_types   |-> << "cultural", "adventure", "relaxation",
                                                 "dining", "shopping" >>,
                         schedule_created |-> TRUE,
                         timestamp        |-> Timestamp ],
                       ACTIVITY_SPECIALIST,
                       "Activities planned, ready for booking coordination")
    ELSE AgentResponse(ACTIVITY_SPECIALIST,
                       << "U+274C", " ", "E", "r", "r", "o", "r", " ", "i", "n", " ", "a", "c", "t", "i", "v",
       "i", "t", "y", " ", "p", "l", "a", "n", "n", "i", "n", "g", ":", " " >> \o completion.value,
                       [ error |-> completion.value ], None, None)

\* ActivitySpecialistAgent.process
ActivitySpecialistProcess(input_data, completion) ==
    IF ~completion.raised
    THEN LET response == completion.value
             data == [ activity_plan    |-> response,
                       activity_types   |-> << "cultural", "adventure", "relaxation",
                                               "dining", "shopping" >>,
                       schedule_created |-> TRUE,
                       timestamp        |-> Timestamp ]
         IN  AgentResponse(ACTIVITY_SPECIALIST,
                           << "U+1F3AF", " ", "A", "c", "t", "i", "v", "i", "t", "y", " ", "S", "p", "e", "c", "i",
       "a", "l", "i", "s", "t", ":", " " >> \o response,
                           data, BOOKING_COORDINATOR,
                           "Activities planned, ready for booking coordination")
    ELSE AgentResponse(ACTIVITY_SPECIALIST,
                       << "U+274C", " ", "E", "r", "r", "o", "r", " ", "i", "n", " ", "a", "c", "t", "i", "v",
       "i", "t", "y", " ", "p", "l", "a", "n", "n", "i", "n", "g", ":", " " >> \o completion.value,
                       [ error |-> completion.value ], None, None)

\* Mutant of BookingCoordinatorProcess: the message is the completion alone.
BookingCoordinatorProcess_BareMessage(input_data, completion) ==
    IF ~completion.raised
    THEN AgentResponse(BOOKING_COORDINATOR,
                       completion.value,
                       [ booking_plan     |-> completion.value,
                         booking_priority |-> << "flights", "accommodation",
                                                 "activities", "restaurants" >>,
                         travel_ready     |-> TRUE,
                         timestamp        |-> Timestamp ],
                       None, "Travel planning complete")
    ELSE AgentResponse(BOOKING_COORDINATOR,
                       << "U+274C", " ", "E", "r", "r", "o", "r", " ", "i", "n", " ", "b", "o", "o", "k", "i",
       "n", "g", " ", "c", "o", "o", "r", "d", "i", "n", "a", "t", "i", "o", "n", ":", " " >> \o completion.value,
                       [ error |-> completion.value ], None, None)

\* Mutant of BookingCoordinatorProcess: on success it hands back to the
\* planner.
BookingCoordinatorProcess_HandsBackToPlanner(input_data, completion) ==
    IF ~completion.raised
    THEN AgentResponse(BOOKING_COORDINATOR,
                       << "U+1F4CB", " ", "B", "o", "o", "k", "i", "n", "g", " ", "C", "o", "o", "r", "d", "i",
       "n", "a", "t", "o", "r", ":", " " >> \o completion.value,
                       [ booking_plan     |-> completion.value,
                         booking_priority |-> << "flights", "accommodation",
                                                 "activities", "restaurants" >>,
                         travel_ready     |-> TRUE,
                         timestamp        |-> Timestamp ],
                       TRAVEL_PLANNER, "Travel planning complete")
    ELSE AgentResponse(BOOKING_COORDINATOR,
                       << "U+274C", " ", "E", "r", "r", "o", "r", " ", "i", "n", " ", "b", "o", "o", "k", "i",
       "n", "g", " ", "c", "o", "o", "r", "d", "i", "n", "a", "t", "i", "o", "n", ":", " " >> \o completion.value,
                       [ error |-> completion.value ], None, None)

\* BookingCoordinatorAgent.process
BookingCoordinatorProcess(input_data, completion) ==
    IF ~completion.raised
    THEN LET response == completion.value
             data == [ booking_plan     |-> response,
                       booking_priority |-> << "flights", "accommodation",
                                               "activities", "restaurants" >>,
                       travel_ready     |-> TRUE,
                       timestamp        |-> Timestamp ]
         IN  AgentResponse(BOOKING_COORDINATOR,
                           << "U+1F4CB", " ", "B", "o", "o", "k", "i", "n", "g", " ", "C", "o", "o", "r", "d", "i",
       "n", "a", "t", "o", "r", ":", " " >> \o response,
                           data, None, "Travel planning complete")
    ELSE AgentResponse(BOOKING_COORDINATOR,
                       << "U+274C", " ", "E", "r", "r", "o", "r", " ", "i", "n", " ", "b", "o", "o", "k", "i",
       "n", "g", " ", "c", "o", "o", "r", "d", "i", "n", "a", "t", "i", "o", "n", ":", " " >> \o completion.value,
                       [ error |-> completion.value ], None, None)

\* The classes whose process calls self.chain.invoke.
CallsCompletion(agent) ==
    agent.class \in { "TravelPlannerAgent", "BudgetAnalystAgent",
                      "ActivitySpecialistAgent", "BookingCoordinatorAgent" }

\* agent.process(input_data), dispatched on the agent's class: the response
\* returned, or the exception process lets escape.
Process(agent, agent_type, input_data, completion) ==
    CASE agent.class = "TravelPlannerAgent" ->
             Returned(TravelPlannerProcess(input_data, completion))
      [] agent.class = "BudgetAnalystAgent" ->
             Returned(BudgetAnalystProcess(input_data, completion))
      [] agent.class = "ActivitySpecialistAgent" ->
             Returned(ActivitySpecialistProcess(input_data, completion))
      [] agent.class = "BookingCoordinatorAgent" ->
             Returned(BookingCoordinatorProcess(input_data, completion))
      [] agent.class = "BaseAgent" ->
             Raised(<< "S", "u", "b", "c", "l", "a", "s", "s", "e", "s", " ", "m", "u", "s", "t", " ", "i",
       "m", "p", "l", "e", "m", "e", "n", "t", " ", "p", "r", "o", "c", "e", "s", "s", " ",
       "m", "e", "t", "h", "o", "d" >>)
      [] agent.class = "SubclassAgent" ->
             Returned(AgentResponse(agent_type, << "o", "k" >>, [ timestamp |-> Timestamp ],
                                    agent.successor, None))

(***************************************************************************)
(* The inputs: travel requests and completion outcomes.                    *)
(***************************************************************************)
\* The first request of main().
TokyoRequest(budget, travelers, interests) ==
    TravelRequest(<< "T", "o", "k", "y", "o", ",", " ", "J", "a", "p", "a", "n" >>, << "M", "a", "r", "c", "h", " ", "1", "5", "-", "2", "5", ",", " ", "2", "0", "2", "5" >>, budget, travelers,
                  interests, << "b", "o", "u", "t", "i", "q", "u", "e", " ", "h", "o", "t", "e", "l" >>)

\* The requests a caller passes: the request of main() ($4,500.00, two
\* travelers), requests with other amounts and traveler counts (a zero
\* budget and no interest, a negative budget, no traveler), and requests
\* whose fields are not of the declared types.
Requests ==
    { TokyoRequest(Float(450000), 2, List(<< << "c", "u", "l", "t", "u", "r", "e" >>, << "f", "o", "o", "d" >> >>)),
      TokyoRequest(Float(0), 1, List(<< >>)),
      TokyoRequest(Float(-500), 2, List(<< << "f", "o", "o", "d" >> >>)),
      TokyoRequest(Float(123456705), 0, List(<< << "f", "o", "o", "d" >> >>)),
      TokyoRequest(StrObject, 2, List(<< << "f", "o", "o", "d" >> >>)),
      TokyoRequest(Float(450000), 2, NoneObject) }

\* What self.chain.invoke does: it returns one of these texts ...
Completions == { << >>, << "n", "o", " ", "b", "u", "d", "g", "e", "t", " ", "m", "e", "n", "t", "i", "o", "n",
       "e", "d" >> }
\* ... or raises an exception with one of these descriptions.
Failures == { << "R", "e", "q", "u", "e", "s", "t", " ", "t", "i", "m", "e", "d", " ", "o", "u", "t",
       "." >> }

CompletionOutcomes ==
    { Returned(text) : text \in Completions } \cup { Raised(e) : e \in Failures }

(***************************************************************************)
(* State.                                                                  *)
(***************************************************************************)
Threads    == { "main", "other" }
MainThread == "main"

VARIABLES
    agents,                 \* self.agents: AgentType -> agent
    conversation_history,   \* self.conversation_history
    \* one process_travel_request call per thread: its position and locals
    pc,                     \* "idle", "loop", "awaiting", "exit", "returned", "raised"
    travel_request,
    current_agent_type,
    current_input,
    responses,
    iteration,
    context,
    returned,               \* the list the call returned
    \* history variables of the verification
    trace,                  \* per call: the agent invocations, in order
    fault,                  \* per call: the except branch of the call was taken
    invocations_made,       \* number of agent invocations of all calls so far
    last_op,                \* the caller's last operation on the orchestrator
    discarded,              \* the results the last reset removed
    after_reset,            \* per call: it started right after a reset
    exit_reason,            \* per call: how the loop was left, "break" or "condition"
    \* what the caller's last get_conversation_summary or export_travel_plan gave
    op_result,
    \* a process call made on an agent directly
    process_call,           \* its agent type, input and result
    \* the manual tool-calling script: one execute_tool_calls call
    tool_pc,                \* "idle", "tools", "final", "returned", "raised"
    messages,               \* the list `messages`
    model_response,         \* `response`: the model's first response
    tool_call_index,        \* position of the loop in response.tool_calls
    final_response,         \* the model's final response
    model_calls,            \* history: the lists model_with_tools.invoke received
    \* the recipe chat script
    last_supervisor_message_index,   \* the global of that name
    chat_pc,                \* "input", "streaming", "ended"
    step_count,             \* chunks of the running turn handled so far
    chunk,                  \* the chunk handled last
    printed                 \* history: times each supervisor position was printed

objvars   == << agents, conversation_history >>
callvars  == << pc, travel_request, current_agent_type, current_input, responses,
                iteration, context, returned >>
ghostvars == << trace, fault, invocations_made, last_op, discarded, after_reset,
               exit_reason >>
toolvars  == << tool_pc, messages, model_response, tool_call_index, final_response,
               model_calls >>
chatvars  == << last_supervisor_message_index, chat_pc, step_count, chunk, printed >>
scriptvars == << toolvars, chatvars >>
vars      == << objvars, callvars, ghostvars, process_call, op_result, scriptvars >>

\* Mutant of FixedAgents: the planner's key holds a BudgetAnalystAgent.
FixedAgents_PlannerKeyMisassigned ==
    [ a \in AgentType |->
        CASE a = TRAVEL_PLANNER      -> BudgetAnalystAgent
          [] a = BUDGET_ANALYST      -> BudgetAnalystAgent
          [] a = ACTIVITY_SPECIALIST -> ActivitySpecialistAgent
          [] a = BOOKING_COORDINATOR -> BookingCoordinatorAgent ]

\* TravelPlanningOrchestrator.__init__: self.agents
FixedAgents ==
    [ a \in AgentType |->
        CASE a = TRAVEL_PLANNER      -> TravelPlannerAgent
          [] a = BUDGET_ANALYST      -> BudgetAnalystAgent
          [] a = ACTIVITY_SPECIALIST -> ActivitySpecialistAgent
          [] a = BOOKING_COORDINATOR -> BookingCoordinatorAgent ]

\* No call was made yet: the parameter travel_request is not bound.
NoRequest == [ bound |-> FALSE ]

\* The caller holds no summary and no export outcome.
NoResult == [ op |-> "none" ]


(***************************************************************************)
(* The scripts before they run.                                            *)
(***************************************************************************)
\* execute_tool_calls: `response` (or `final_response`) is not assigned yet.
NoResponse == [ bound |-> FALSE ]

\* The chat loop: no chunk was streamed yet.
NoChunk == [ bound |-> FALSE ]

\* Positions of a chunk's message list (list indices, from 0).
Positions == 0..(MaxMessages - 1)

\* Neither script has run: execute_tool_calls was not called, and the chat
\* script stands at its first input() with the global at -1.
InitScripts ==
    /\ tool_pc = "idle"
    /\ messages = << >>
    /\ model_response = NoResponse
    /\ tool_call_index = 0
    /\ final_response = NoResponse
    /\ model_calls = << >>
    /\ last_supervisor_message_index = -1
    /\ chat_pc = "input"
    /\ step_count = 0
    /\ chunk = NoChunk
    /\ printed = [ p \in Positions |-> 0 ]

\* State after TravelPlanningOrchestrator(), given its agents.
InitWith(agent_map) ==
    /\ agents = agent_map
    /\ conversation_history = << >>
    /\ pc = [ t \in Threads |-> "idle" ]
    /\ travel_request = [ t \in Threads |-> NoRequest ]
    /\ current_agent_type = [ t \in Threads |-> None ]
    /\ current_input = [ t \in Threads |-> << >> ]
    /\ responses = [ t \in Threads |-> << >> ]
    /\ iteration = [ t \in Threads |-> 0 ]
    /\ context = [ t \in Threads |-> << >> ]
    /\ returned = [ t \in Threads |-> << >> ]
    /\ trace = [ t \in Threads |-> << >> ]
    /\ fault = [ t \in Threads |-> FALSE ]
    /\ invocations_made = 0
    /\ last_op = "init"
    /\ discarded = << >>
    /\ after_reset = [ t \in Threads |-> FALSE ]
    /\ exit_reason = [ t \in Threads |-> "none" ]
    /\ op_result = NoResult
    /\ InitScripts

\* No direct process call was made; `input_data` is the text of the next one.
NoProcessCall(input_data) == [ made |-> FALSE, input_data |-> input_data ]

Init == InitWith(FixedAgents) /\ process_call = NoProcessCall(<< >>)

(***************************************************************************)
(* TravelPlanningOrchestrator.                                             *)
(***************************************************************************)
\* _format_travel_request: the text, or the exception the f-string raises
\* (fields are formatted left to right).
format_travel_request(request) ==
    IF request.budget.type # "float"
    THEN Raised(<< "U", "n", "k", "n", "o", "w", "n", " ", "f", "o", "r", "m", "a", "t", " ", "c", "o",
       "d", "e", " ", "'", "f", "'", " ", "f", "o", "r", " ", "o", "b", "j", "e", "c", "t",
       " ", "o", "f", " ", "t", "y", "p", "e", " ", "'", "s", "t", "r", "'" >>)
    ELSE IF request.interests.type # "list"
    THEN Raised(<< "c", "a", "n", " ", "o", "n", "l", "y", " ", "j", "o", "i", "n", " ", "a", "n", " ",
       "i", "t", "e", "r", "a", "b", "l", "e" >>)
    ELSE Returned(
           << "\n", " ", " ", " ", " ", " ", " ", " ", " ", "T", "r", "a", "v", "e", "l", " ", "R",
       "e", "q", "u", "e", "s", "t", " ", "D", "e", "t", "a", "i", "l", "s", ":", "\n", " ",
       " ", " ", " ", " ", " ", " ", " ", "-", " ", "D", "e", "s", "t", "i", "n", "a", "t",
       "i", "o", "n", ":", " " >>
        \o request.destination
        \o << "\n", " ", " ", " ", " ", " ", " ", " ", " ", "-", " ", "T", "r", "a", "v", "e", "l",
       " ", "D", "a", "t", "e", "s", ":", " " >> \o request.travel_dates
        \o << "\n", " ", " ", " ", " ", " ", " ", " ", " ", "-", " ", "B", "u", "d", "g", "e", "t",
       ":", " ", "$" >> \o FormatMoney(request.budget.cents)
        \o << "\n", " ", " ", " ", " ", " ", " ", " ", " ", "-", " ", "N", "u", "m", "b", "e", "r",
       " ", "o", "f", " ", "T", "r", "a", "v", "e", "l", "e", "r", "s", ":", " " >> \o IntToText(request.travelers)
        \o << "\n", " ", " ", " ", " ", " ", " ", " ", " ", "-", " ", "I", "n", "t", "e", "r", "e",
       "s", "t", "s", ":", " " >> \o Join(<< ",", " " >>, request.interests.items)
        \o << "\n", " ", " ", " ", " ", " ", " ", " ", " ", "-", " ", "A", "c", "c", "o", "m", "m",
       "o", "d", "a", "t", "i", "o", "n", " ", "T", "y", "p", "e", ":", " " >> \o request.accommodation_type
        \o << "\n", " ", " ", " ", " ", " ", " ", " ", " " >>)

\* Mutant of LastTwo: every previous response goes into the context.
LastTwo_All(previous_responses) == previous_responses

\* previous_responses[-2:]
LastTwo(previous_responses) ==
    IF Len(previous_responses) <= 2 THEN previous_responses
    ELSE SubSeq(previous_responses, Len(previous_responses) - 1, Len(previous_responses))

\* Mutant of build_context: the digest is taken from the conversation history
\* followed by the responses of the call.
build_context_FromHistory(previous_responses, input) ==
    LET all == conversation_history \o previous_responses
    IN  IF Len(all) = 0 THEN input
        ELSE LET digest == [ i \in 1..Len(LastTwo(all)) |->
                               << "\n" >> \o AgentTypeValue(LastTwo(all)[i].agent_type)
                               \o << ":", " " >> \o LastTwo(all)[i].message ]
                 context_parts == << input, << "\n", "P", "r", "e", "v", "i", "o", "u", "s", " ", "A", "g", "e", "n", "t", " ", "A",
       "n", "a", "l", "y", "s", "i", "s", ":" >> >> \o digest
             IN  Join(<< "\n" >>, context_parts)

\* _build_context
build_context(previous_responses, input) ==
    IF Len(previous_responses) = 0 THEN input
    ELSE LET digest == [ i \in 1..Len(LastTwo(previous_responses)) |->
                           << "\n" >> \o AgentTypeValue(LastTwo(previous_responses)[i].agent_type)
                           \o << ":", " " >> \o LastTwo(previous_responses)[i].message ]
             context_parts == << input, << "\n", "P", "r", "e", "v", "i", "o", "u", "s", " ", "A", "g", "e", "n", "t", " ", "A",
       "n", "a", "l", "y", "s", "i", "s", ":" >> >> \o digest
         IN  Join(<< "\n" >>, context_parts)

\* Mutant of SystemErrorResponse: the error result names the planner as the
\* next agent.
SystemErrorResponse_NamesPlanner(e) ==
    AgentResponse(TRAVEL_PLANNER, << "U+274C", " ", "S", "y", "s", "t", "e", "m", " ", "e", "r", "r", "o", "r", ":", " " >> \o e,
                  [ error |-> e ], TRAVEL_PLANNER, None)

\* The error response of process_travel_request's except branch.
SystemErrorResponse(e) ==
    AgentResponse(TRAVEL_PLANNER, << "U+274C", " ", "S", "y", "s", "t", "e", "m", " ", "e", "r", "r", "o", "r", ":", " " >> \o e,
                  [ error |-> e ], None, None)

\* Mutant of ExceptBranch: the exception leaves process_travel_request.
ExceptBranch_Propagates(t, e) ==
    /\ pc' = [ pc EXCEPT ![t] = "raised" ]
    /\ returned' = [ returned EXCEPT ![t] = << >> ]
    /\ fault' = [ fault EXCEPT ![t] = TRUE ]

\* Mutant of ExceptBranch: the error result is returned after the responses
\* gathered so far.
ExceptBranch_KeepsGathered(t, e) ==
    /\ pc' = [ pc EXCEPT ![t] = "returned" ]
    /\ returned' = [ returned EXCEPT ![t] = Append(responses[t], SystemErrorResponse(e)) ]
    /\ fault' = [ fault EXCEPT ![t] = TRUE ]

\* except Exception as e: return [error_response]
ExceptBranch(t, e) ==
    /\ pc' = [ pc EXCEPT ![t] = "returned" ]
    /\ returned' = [ returned EXCEPT ![t] = << SystemErrorResponse(e) >> ]
    /\ fault' = [ fault EXCEPT ![t] = TRUE ]

\* Mutant of LoopCondition: the cap is compared with <=.
LoopCondition_OffByOne(t) ==
    current_agent_type[t] # None /\ iteration[t] <= MAX_ITERATIONS

\* The loop condition: current_agent_type and iteration < max_iterations
LoopCondition(t) ==
    current_agent_type[t] # None /\ iteration[t] < MAX_ITERATIONS

\* process_travel_request, up to the loop: the request is formatted and the
\* locals are set; an exception of the formatting takes the except branch.
PlanStart(t, request) ==
    /\ pc[t] \in { "idle", "returned" }
    /\ invocations_made <= MaxPriorInvocations
    /\ last_op' = "plan"
    /\ after_reset' = [ after_reset EXCEPT ![t] = (last_op = "reset") ]
    /\ exit_reason' = [ exit_reason EXCEPT ![t] = "none" ]
    /\ op_result' = NoResult
    /\ travel_request' = [ travel_request EXCEPT ![t] = request ]
    /\ trace' = [ trace EXCEPT ![t] = << >> ]
    /\ iteration' = [ iteration EXCEPT ![t] = 0 ]
    /\ responses' = [ responses EXCEPT ![t] = << >> ]
    /\ context' = [ context EXCEPT ![t] = << >> ]
    /\ LET request_str == format_travel_request(request)
       IN  IF request_str.raised
           THEN /\ ExceptBranch(t, request_str.value)
                /\ current_agent_type' = [ current_agent_type EXCEPT ![t] = None ]
                /\ current_input' = [ current_input EXCEPT ![t] = << >> ]
           ELSE /\ pc' = [ pc EXCEPT ![t] = "loop" ]
                /\ returned' = [ returned EXCEPT ![t] = << >> ]
                /\ fault' = [ fault EXCEPT ![t] = FALSE ]
                /\ current_agent_type' = [ current_agent_type EXCEPT ![t] = TRAVEL_PLANNER ]
                /\ current_input' = [ current_input EXCEPT ![t] = request_str.value ]
    /\ UNCHANGED << objvars, invocations_made, discarded, process_call, scriptvars >>

\* No completion call of the invocation has ended (yet).
NoOutcome == [ ended |-> FALSE ]

\* One pass of the loop up to the completion call: the iteration is counted,
\* the context is built and agent.process is entered.
PlanInvoke(t) ==
    /\ pc[t] = "loop"
    /\ LoopCondition(t)
    /\ iteration' = [ iteration EXCEPT ![t] = iteration[t] + 1 ]
    /\ context' = [ context EXCEPT ![t] = build_context(responses[t], current_input[t]) ]
    /\ trace' = [ trace EXCEPT ![t] = Append(trace[t],
                    [ agent_type |-> current_agent_type[t],
                      context    |-> build_context(responses[t], current_input[t]),
                      completion |-> IF CallsCompletion(agents[current_agent_type[t]])
                                     THEN "pending" ELSE "none",
                      outcome    |-> NoOutcome ]) ]
    /\ invocations_made' = invocations_made + 1
    /\ pc' = [ pc EXCEPT ![t] = "awaiting" ]
    /\ UNCHANGED << objvars, travel_request, current_agent_type, current_input,
                    responses, returned, fault, last_op, discarded, after_reset,
                    exit_reason, process_call, op_result, scriptvars >>

\* Mutant of HandOff: whatever successor the response names, the booking
\* coordinator is invoked next.
HandOff_IgnoresNamedAgent(t, response) ==
    IF response.next_agent # None
    THEN /\ current_agent_type' = [ current_agent_type EXCEPT ![t] = BOOKING_COORDINATOR ]
         /\ current_input' = [ current_input EXCEPT ![t] = response.message ]
         /\ pc' = [ pc EXCEPT ![t] = "loop" ]
    ELSE /\ UNCHANGED << current_agent_type, current_input >>
         /\ pc' = [ pc EXCEPT ![t] = "exit" ]

\* The hand-off check after agent.process returned `response`.
HandOff(t, response) ==
    IF response.next_agent # None
    THEN /\ current_agent_type' = [ current_agent_type EXCEPT ![t] = response.next_agent ]
         /\ current_input' = [ current_input EXCEPT ![t] = response.message ]
         /\ pc' = [ pc EXCEPT ![t] = "loop" ]
    ELSE /\ UNCHANGED << current_agent_type, current_input >>
         /\ pc' = [ pc EXCEPT ![t] = "exit" ]

\* Mutant of PlanAgentReturn: each response is recorded in the history as
\* soon as the agent returns it.
PlanAgentReturn_RecordsAtOnce(t, completion) ==
    /\ pc[t] = "awaiting"
    /\ LET agent  == agents[current_agent_type[t]]
           result == Process(agent, current_agent_type[t], context[t], completion)
       IN  /\ trace' = [ trace EXCEPT ![t][Len(trace[t])] =
                           IF ~CallsCompletion(agent) THEN @
                           ELSE [ @ EXCEPT !.completion = IF completion.raised
                                                          THEN "raised" ELSE "returned",
                                           !.outcome = completion ] ]
           /\ IF result.raised
              THEN /\ ExceptBranch(t, result.value)
                   /\ UNCHANGED << responses, current_agent_type, current_input,
                                   conversation_history >>
              ELSE /\ responses' = [ responses EXCEPT ![t] = Append(responses[t], result.value) ]
                   /\ conversation_history' = Append(conversation_history, result.value)
                   /\ HandOff(t, result.value)
                   /\ UNCHANGED << returned, fault >>
    /\ UNCHANGED << agents, travel_request, iteration, context, invocations_made,
                    last_op, discarded, after_reset, exit_reason, process_call,
                    op_result, scriptvars >>

\* The rest of the pass: the completion call ends with `completion`,
\* agent.process returns its response, which is appended and decides the
\* hand-off; an exception process lets escape takes the except branch.
PlanAgentReturn(t, completion) ==
    /\ pc[t] = "awaiting"
    /\ LET agent  == agents[current_agent_type[t]]
           result == Process(agent, current_agent_type[t], context[t], completion)
       IN  /\ trace' = [ trace EXCEPT ![t][Len(trace[t])] =
                           IF ~CallsCompletion(agent) THEN @
                           ELSE [ @ EXCEPT !.completion = IF completion.raised
                                                          THEN "raised" ELSE "returned",
                                           !.outcome = completion ] ]
           /\ IF result.raised
              THEN /\ ExceptBranch(t, result.value)
                   /\ UNCHANGED << responses, current_agent_type, current_input >>
              ELSE /\ responses' = [ responses EXCEPT ![t] = Append(responses[t], result.value) ]
                   /\ HandOff(t, result.value)
                   /\ UNCHANGED << returned, fault >>
    /\ UNCHANGED << objvars, travel_request, iteration, context, invocations_made,
                    last_op, discarded, after_reset, exit_reason, process_call,
                    op_result, scriptvars >>

\* Mutant of PlanFinish: the history is assigned the responses of the call.
PlanFinish_ReplacesHistory(t) ==
    /\ \/ pc[t] = "exit"
       \/ pc[t] = "loop" /\ ~LoopCondition(t)
    /\ conversation_history' = responses[t]
    /\ returned' = [ returned EXCEPT ![t] = responses[t] ]
    /\ pc' = [ pc EXCEPT ![t] = "returned" ]
    /\ exit_reason' = [ exit_reason EXCEPT ![t] =
                          IF pc[t] = "exit" THEN "break" ELSE "condition" ]
    /\ UNCHANGED << agents, travel_request, current_agent_type, current_input,
                    responses, iteration, context, trace, fault, invocations_made,
                    last_op, discarded, after_reset, process_call, op_result, scriptvars >>

\* After the loop: self.conversation_history.extend(responses); return responses
PlanFinish(t) ==
    /\ \/ pc[t] = "exit"
       \/ pc[t] = "loop" /\ ~LoopCondition(t)
    /\ conversation_history' = conversation_history \o responses[t]
    /\ returned' = [ returned EXCEPT ![t] = responses[t] ]
    /\ pc' = [ pc EXCEPT ![t] = "returned" ]
    /\ exit_reason' = [ exit_reason EXCEPT ![t] =
                          IF pc[t] = "exit" THEN "break" ELSE "condition" ]
    /\ UNCHANGED << agents, travel_request, current_agent_type, current_input,
                    responses, iteration, context, trace, fault, invocations_made,
                    last_op, discarded, after_reset, process_call, op_result, scriptvars >>

\* No process_travel_request call is in progress.
Quiescent == \A t \in Threads : pc[t] \in { "idle", "returned" }

\* Mutant of Reset: the latest result is kept.
Reset_KeepsLatest ==
    /\ Quiescent
    /\ conversation_history' =
         IF Len(conversation_history) = 0 THEN << >>
         ELSE << conversation_history[Len(conversation_history)] >>
    /\ discarded' = conversation_history
    /\ last_op' = "reset"
    /\ op_result' = NoResult
    /\ UNCHANGED << agents, callvars, trace, fault, invocations_made, after_reset,
                    exit_reason, process_call, scriptvars >>

\* main(): orchestrator.conversation_history.clear()
Reset ==
    /\ Quiescent
    /\ conversation_history' = << >>
    /\ discarded' = conversation_history
    /\ last_op' = "reset"
    /\ op_result' = NoResult
    /\ UNCHANGED << agents, callvars, trace, fault, invocations_made, after_reset,
                    exit_reason, process_call, scriptvars >>

\* Mutant of get_conversation_summary: the status is "complete" whatever the
\* history holds.
get_conversation_summary_AlwaysComplete(history) ==
    [ total_responses |-> Len(history),
      agents_involved |-> [ i \in 1..Len(history) |-> AgentTypeValue(history[i].agent_type) ],
      final_status    |-> << "c", "o", "m", "p", "l", "e", "t", "e" >>,
      timestamp       |-> Timestamp ]

\* get_conversation_summary, of self.conversation_history = history
get_conversation_summary(history) ==
    [ total_responses |-> Len(history),
      agents_involved |-> [ i \in 1..Len(history) |-> AgentTypeValue(history[i].agent_type) ],
      final_status    |-> IF Len(history) > 0 THEN << "c", "o", "m", "p", "l", "e", "t", "e" >> ELSE << "n", "o", "t", "_", "s", "t", "a", "r", "t", "e", "d" >>,
      timestamp       |-> Timestamp ]

\* The caller asks for the summary.
GetConversationSummary ==
    /\ Quiescent
    /\ op_result' = [ op |-> "summary", value |-> get_conversation_summary(conversation_history) ]
    /\ last_op' = "summary"
    /\ UNCHANGED << objvars, callvars, trace, fault, invocations_made, discarded,
                    after_reset, exit_reason, process_call, scriptvars >>

\* AgentResponse.to_dict (an absent next_agent, None, is given as no text)
to_dict(response) ==
    [ agent_type     |-> AgentTypeValue(response.agent_type),
      message        |-> response.message,
      data           |-> response.data,
      next_agent     |-> IF response.next_agent # None
                         THEN AgentTypeValue(response.next_agent) ELSE << >>,
      handoff_reason |-> response.handoff_reason ]

\* The filename argument of export_travel_plan: the name main() passes, or
\* none (None and the empty text are alike to `if not filename`).
NoFilename == << >>
ExportFilenames == { NoFilename, << "t", "r", "a", "v", "e", "l", "_", "p", "l", "a", "n", "_", "1", ".", "j", "s", "o",
       "n" >> }

\* f"travel_plan_{datetime.now().strftime('%Y%m%d_%H%M%S')}.json"
DefaultFilename == << "t", "r", "a", "v", "e", "l", "_", "p", "l", "a", "n", "_" >> \o << "%Y%m%d_%H%M%S" >> \o << ".", "j", "s", "o", "n" >>

\* export_data of export_travel_plan
export_data(history) ==
    [ travel_plan |-> [ i \in 1..Len(history) |-> to_dict(history[i]) ],
      summary     |-> get_conversation_summary(history) ]

\* Mutant of ExportTravelPlan: the exported history is cleared.
ExportTravelPlan_ClearsHistory(filename, writable) ==
    /\ Quiescent
    /\ op_result' = [ op |-> "export", value |-> filename,
                      file |-> << export_data(conversation_history) >> ]
    /\ conversation_history' = << >>
    /\ last_op' = "export"
    /\ UNCHANGED << agents, callvars, trace, fault, invocations_made, discarded,
                    after_reset, exit_reason, process_call, scriptvars >>

\* export_travel_plan(filename): the document is written to the file and the
\* file name returned, or, the file not being writable, "" is returned.
ExportTravelPlan(filename, writable) ==
    /\ Quiescent
    /\ LET name == IF filename = NoFilename THEN DefaultFilename ELSE filename
       IN  op_result' =
             IF writable
             THEN [ op |-> "export", value |-> name,
                    file |-> << export_data(conversation_history) >> ]
             ELSE [ op |-> "export", value |-> << >>, file |-> << >> ]
    /\ last_op' = "export"
    /\ UNCHANGED << objvars, callvars, trace, fault, invocations_made, discarded,
                    after_reset, exit_reason, process_call, scriptvars >>

(***************************************************************************)
(* The program: one caller, as main(), whose calls follow one another.     *)
(***************************************************************************)
Next ==
    \/ \E request \in Requests : PlanStart(MainThread, request)
    \/ PlanInvoke(MainThread)
    \/ \E completion \in CompletionOutcomes : PlanAgentReturn(MainThread, completion)
    \/ PlanFinish(MainThread)
    \/ Reset

Spec == Init /\ [][Next]_vars

(***************************************************************************)
(* The orchestrator's loop over any agents: self.agents holds, for each    *)
(* role, the agent of the program, BaseAgent itself, or a subclass of      *)
(* BaseAgent whose process names a fixed successor (any role, its own      *)
(* included, or none).  One call on the request of main().                 *)
(***************************************************************************)
\* A subclass of BaseAgent whose process always answers with `successor`.
SubclassAgent(successor) == Agent("SubclassAgent", successor)

AgentMaps ==
    [ AgentType -> { BaseAgent } \cup { SubclassAgent(s) : s \in AgentType \cup { None } } ]
    \cup { [ FixedAgents EXCEPT ![a] = x ] :
             a \in AgentType,
             x \in { BaseAgent } \cup { SubclassAgent(s) : s \in AgentType \cup { None } } }
    \cup { FixedAgents }

MainRequest == TokyoRequest(Float(450000), 2, List(<< << "c", "u", "l", "t", "u", "r", "e" >>, << "f", "o", "o", "d" >> >>))

InitAnyAgents == (\E agent_map \in AgentMaps : InitWith(agent_map)) /\ process_call = NoProcessCall(<< >>)

NextAnyAgents ==
    \/ last_op = "init" /\ PlanStart(MainThread, MainRequest)
    \/ PlanInvoke(MainThread)
    \/ \E completion \in CompletionOutcomes : PlanAgentReturn(MainThread, completion)
    \/ PlanFinish(MainThread)

SpecAnyAgents == InitAnyAgents /\ [][NextAnyAgents]_vars

(***************************************************************************)
(* Progress of a call.  The orchestrator's code runs on whenever it can    *)
(* (PlanStart, PlanInvoke, PlanFinish), and a completion call that was     *)
(* made eventually returns or raises (PlanAgentReturn).  The steps of a    *)
(* call follow one another, so at most one of them is possible at a time.  *)
(***************************************************************************)
PlanProgress == WF_vars(NextAnyAgents)

\* The agents of the program, or for each role a subclass agent that hands
\* back to one of the first two roles or names no successor: chains that
\* end, and chains that go round until the cap.
LoopMaps ==
    [ AgentType -> { SubclassAgent(s) : s \in { TRAVEL_PLANNER, BUDGET_ANALYST, None } } ]
    \cup { FixedAgents }

InitLoopAgents ==
    (\E agent_map \in LoopMaps : InitWith(agent_map)) /\ process_call = NoProcessCall(<< >>)

SpecLoopFair == InitLoopAgents /\ [][NextAnyAgents]_vars /\ PlanProgress

(***************************************************************************)
(* The caller's session: between its plan calls and resets the caller      *)
(* reads the summary and exports the plan, as main() does.  The requests   *)
(* are the request of main() and one that cannot be formatted.             *)
(***************************************************************************)
SessionRequests == { MainRequest, TokyoRequest(Float(450000), 2, NoneObject) }

NextSession ==
    \/ /\ invocations_made <= MaxSessionPriorInvocations
       /\ \E request \in SessionRequests : PlanStart(MainThread, request)
    \/ PlanInvoke(MainThread)
    \/ \E completion \in CompletionOutcomes : PlanAgentReturn(MainThread, completion)
    \/ PlanFinish(MainThread)
    \/ Reset
    \/ GetConversationSummary
    \/ \E filename \in ExportFilenames, writable \in BOOLEAN :
          ExportTravelPlan(filename, writable)

SpecSession == Init /\ [][NextSession]_vars

(***************************************************************************)
(* The caller's session with an agent that raises: self.agents holds the   *)
(* agents of the program, or BaseAgent itself in one role, whose process   *)
(* raises NotImplementedError in the middle of a call.                     *)
(***************************************************************************)
FaultyMaps ==
    { FixedAgents } \cup { [ FixedAgents EXCEPT ![a] = BaseAgent ] : a \in AgentType }

InitFaulty ==
    (\E agent_map \in FaultyMaps : InitWith(agent_map)) /\ process_call = NoProcessCall(<< >>)

SpecFaultySession == InitFaulty /\ [][NextSession]_vars

(***************************************************************************)
(* Two callers on the same orchestrator without locking: each thread makes *)
(* one process_travel_request call, and the calls interleave at the        *)
(* boundaries of the agent invocations (a call runs on while the other     *)
(* waits for a completion call).                                           *)
(***************************************************************************)
NextInterleaved ==
    \/ \E t \in Threads, request \in SessionRequests :
          pc[t] = "idle" /\ PlanStart(t, request)
    \/ \E t \in Threads : PlanInvoke(t)
    \/ \E t \in Threads, completion \in CompletionOutcomes : PlanAgentReturn(t, completion)
    \/ \E t \in Threads : PlanFinish(t)

SpecInterleaved == Init /\ [][NextInterleaved]_vars

(***************************************************************************)
(* process called on an agent directly, on any input text.                 *)
(***************************************************************************)
Keyword == << "b", "u", "d", "g", "e", "t" >>

\* The keyword in every mix of letter cases.
CaseVariants ==
    { [ i \in 1..Len(Keyword) |-> IF i \in upper
                                  THEN UpperCase[CHOOSE k \in 1..Len(LowerCase) :
                                                    LowerCase[k] = Keyword[i]]
                                  ELSE Keyword[i] ] :
      upper \in SUBSET (1..Len(Keyword)) }

\* Texts that are not the keyword.
NearMisses == { << >>, << "b", "u", "d", "g", "e" >>, << "u", "d", "g", "e", "t" >>, << "b", "u", "d", " ", "g", "e", "t" >>, << "b", "u", "d", "g", "t", "e" >>, << "B", "U", "D", "G", "E" >> }

PadAlphabet == { "$", "x" }

\* The input texts: a word between two paddings.
InputTexts ==
    { before \o word \o after :
        before \in TextsUpTo(PadAlphabet, MaxPad),
        word \in CaseVariants \cup NearMisses,
        after \in TextsUpTo(PadAlphabet, MaxPad) }

InitProcess ==
    \E input_data \in InputTexts :
        InitWith(FixedAgents) /\ process_call = NoProcessCall(input_data)

\* agents[agent_type].process(input_data), the completion call ending with
\* `completion`.
ProcessCall(agent_type, completion) ==
    /\ ~process_call.made
    /\ process_call' =
         [ made       |-> TRUE,
           agent_type |-> agent_type,
           input_data |-> process_call.input_data,
           completion |-> completion,
           result     |-> Process(agents[agent_type], agent_type,
                                  process_call.input_data, completion) ]
    /\ UNCHANGED << objvars, callvars, ghostvars, op_result, scriptvars >>

NextProcess ==
    \E agent_type \in AgentType, completion \in CompletionOutcomes :
        ProcessCall(agent_type, completion)

SpecProcess == InitProcess /\ [][NextProcess]_vars

(***************************************************************************)
(* langchain/2_manual_tool_calling.py: execute_tool_calls.                 *)
(***************************************************************************)
\* The messages of langchain_core, as the fields the script reads and writes.
HumanMessage(content) == [ type |-> "human", content |-> content ]
AIMessage(content, tool_calls) ==
    [ type |-> "ai", content |-> content, tool_calls |-> tool_calls ]
ToolMessage(content, tool_call_id) ==
    [ type |-> "tool", content |-> content, tool_call_id |-> tool_call_id ]

\* The @tool get_weather, and the list main() passes as `tools`.
get_weather == [ name |-> "get_weather" ]
tools == << get_weather >>

\* Questions of main()'s examples.
UserInputs ==
    { "What's the weather like in Sydney, Australia?",
      "What's the capital of France?" }

\* What random.choice may pick in get_weather: two of the conditions, the
\* first temperature and the first humidity level.
WeatherConditions == { "sunny", "foggy" }
Temperatures == { 15 }
HumidityLevels == { 30 }

\* tool.invoke(args) for get_weather: the reports it may return, one per
\* choice of condition, temperature and humidity; args without a location
\* do not pass the tool's argument schema, and invoke raises.
InvokeTool(tool, args) ==
    IF "location" \in DOMAIN args
    THEN { Returned([ location    |-> args.location,
                      condition   |-> condition,
                      temperature |-> temperature,
                      humidity    |-> humidity ]) :
             condition \in WeatherConditions,
             temperature \in Temperatures,
             humidity \in HumidityLevels }
    ELSE { Raised([ error |-> "ValidationError" ]) }

\* The tool calls a response of the model may hold: each has the name of the
\* bound tool or a name no tool has, arguments that fit get_weather or do
\* not, and an id of its own.
ToolCallNames == { "get_weather", "get_forecast" }
ToolCallArgs == { [ location |-> "Tokyo" ], [ city |-> "Tokyo" ] }
ToolCallId(k) == << "call", k >>
ToolCallLists ==
    UNION { { [ k \in 1..n |-> [ name |-> names[k], args |-> args[k],
                                 id |-> ToolCallId(k) ] ] :
                names \in [ 1..n -> ToolCallNames ],
                args \in [ 1..n -> ToolCallArgs ] } :
            n \in 0..MaxToolCalls }

\* What model_with_tools.invoke does: it returns an AIMessage, with or
\* without tool calls, or raises.
ModelContents == { "", "It is sunny in Tokyo." }
ModelOutcomes ==
    { Returned(AIMessage(content, tool_calls)) :
        content \in ModelContents, tool_calls \in ToolCallLists }
    \cup { Raised([ error |-> "APIError" ]) }

\* The same for the final call, of whose response the script reads the
\* content only.
FinalOutcomes ==
    { Returned(AIMessage(content, << >>)) : content \in ModelContents }
    \cup { Raised([ error |-> "APIError" ]) }

\* `for tool in tools: if tool.name == tool_call['name']: ... break`: the
\* first tool of that name, as a list of one, or the empty list.
MatchingTools(tool_call) ==
    IF \E k \in 1..Len(tools) : tools[k].name = tool_call.name
    THEN << tools[CHOOSE k \in 1..Len(tools) :
                    /\ tools[k].name = tool_call.name
                    /\ \A j \in 1..(k - 1) : tools[j].name # tool_call.name] >>
    ELSE << >>

\* execute_tool_calls(user_input, tools, model_with_tools) up to the loop over
\* the tool calls: the first model call, ending with `outcome`.  main() calls
\* it for one example after the other.
ExecuteToolCallsStart(user_input, outcome) ==
    /\ tool_pc \in { "idle", "returned" }
    /\ model_calls' = << << HumanMessage(user_input) >> >>
    /\ final_response' = NoResponse
    /\ IF outcome.raised
       THEN /\ tool_pc' = "raised"
            /\ messages' = << HumanMessage(user_input) >>
            /\ model_response' = NoResponse
            /\ tool_call_index' = 0
       ELSE /\ model_response' = outcome.value
            /\ IF outcome.value.tool_calls # << >>
               THEN /\ messages' = << HumanMessage(user_input), outcome.value >>
                    /\ tool_call_index' = 1
                    /\ tool_pc' = "tools"
               ELSE /\ messages' = << HumanMessage(user_input) >>
                    /\ tool_call_index' = 0
                    /\ tool_pc' = "final"
    /\ UNCHANGED << objvars, callvars, ghostvars, process_call, op_result, chatvars >>

\* One pass of `for i, tool_call in enumerate(response.tool_calls, 1)`: the
\* tool of the call's name is invoked and its result appended as a
\* ToolMessage; for a name no tool has, nothing is appended.
ExecuteToolCall ==
    /\ tool_pc = "tools"
    /\ LET tool_call == model_response.tool_calls[tool_call_index]
           found     == MatchingTools(tool_call)
           last      == tool_call_index = Len(model_response.tool_calls)
       IN  IF found = << >>
           THEN /\ messages' = messages
                /\ tool_call_index' = tool_call_index + 1
                /\ tool_pc' = IF last THEN "final" ELSE "tools"
           ELSE \E tool_result \in InvokeTool(found[1], tool_call.args) :
                  IF tool_result.raised
                  THEN /\ tool_pc' = "raised"
                       /\ UNCHANGED << messages, tool_call_index >>
                  ELSE /\ messages' = Append(messages,
                                             ToolMessage(tool_result.value, tool_call.id))
                       /\ tool_call_index' = tool_call_index + 1
                       /\ tool_pc' = IF last THEN "final" ELSE "tools"
    /\ UNCHANGED << model_response, final_response, model_calls >>
    /\ UNCHANGED << objvars, callvars, ghostvars, process_call, op_result, chatvars >>

\* final_response = model_with_tools.invoke(messages), ending with `outcome`.
ExecuteToolCallsFinish(outcome) ==
    /\ tool_pc = "final"
    /\ model_calls' = Append(model_calls, messages)
    /\ IF outcome.raised
       THEN /\ tool_pc' = "raised"
            /\ final_response' = NoResponse
       ELSE /\ tool_pc' = "returned"
            /\ final_response' = outcome.value
    /\ UNCHANGED << messages, model_response, tool_call_index >>
    /\ UNCHANGED << objvars, callvars, ghostvars, process_call, op_result, chatvars >>

NextToolCalling ==
    \/ \E user_input \in UserInputs, outcome \in ModelOutcomes :
         ExecuteToolCallsStart(user_input, outcome)
    \/ ExecuteToolCall
    \/ \E outcome \in FinalOutcomes : ExecuteToolCallsFinish(outcome)

SpecToolCalling == Init /\ [][NextToolCalling]_vars

(***************************************************************************)
(* langchain/5_multi_agent.py: the recipe chat.                            *)
(***************************************************************************)
\* str.strip(): the text without its leading and trailing whitespace
Whitespace == { " ", "\t", "\n" }
RECURSIVE Strip(_)
Strip(text) ==
    IF text = << >> THEN text
    ELSE IF text[1] \in Whitespace THEN Strip(Tail(text))
    ELSE IF text[Len(text)] \in Whitespace THEN Strip(SubSeq(text, 1, Len(text) - 1))
    ELSE text

\* What the user may type at input().
ChatInputs ==
    { << "e", "x", "i", "t" >>, << "E", "x", "i", "t" >>, << " ", "E", "X", "I", "T", " " >>, << "e", "x", "i", "t", " ", "n", "o", "w" >>, << "I", " ", "h", "a", "v", "e", " ", "s", "o", "m", "e", " ", "m", "a", "c", "a", "r",
       "o", "n", "i", "." >>, << >> }

\* The nodes of the supervisor graph whose chunks print_agent_interaction
\* tells apart.
Supervisor == "supervisor"
ChunkNodes ==
    { Supervisor, "recipe_generator_assistant", "gluten_free_reviewer_assistant",
      "vegan_reviewer_assistant" }

\* The messages a chunk may hold: an AIMessage with or without content, a
\* ToolMessage, a message of another class.
ChatMessages ==
    { AIMessage("Here is a recipe.", << >>), AIMessage("", << >>),
      ToolMessage("Successfully transferred", ToolCallId(1)),
      HumanMessage("I have some macaroni.") }

\* A streamed chunk {node: {'messages': [...]}}.
Chunks ==
    { [ bound |-> TRUE, node |-> node, messages |-> chunk_messages ] :
        node \in ChunkNodes,
        chunk_messages \in TextsUpTo(ChatMessages, MaxMessages) }

\* print_messages(messages, start_index, only_print_tool_calls): the
\* positions (list indices, from 0) whose content it prints.
print_messages(chunk_messages, start_index, only_print_tool_calls) ==
    { i \in start_index..(Len(chunk_messages) - 1) :
        LET message == chunk_messages[i + 1]
        IN  IF ~only_print_tool_calls /\ message.type = "ai"
            THEN message.content # ""
            ELSE message.type = "tool" }

\* Mutant of PrintAgentInteraction: the global is set from every supervisor
\* chunk, also from one that holds no new message.
PrintAgentInteraction_AlwaysUpdates(c) ==
    IF c.node = Supervisor
    THEN LET new_start_index == last_supervisor_message_index + 1
         IN  /\ printed' =
                  [ p \in Positions |->
                      IF p \in print_messages(c.messages, new_start_index, FALSE)
                      THEN printed[p] + 1 ELSE printed[p] ]
             /\ last_supervisor_message_index' = Len(c.messages) - 1
    ELSE UNCHANGED << last_supervisor_message_index, printed >>

\* print_agent_interaction(chunk, step_name): of a supervisor chunk the
\* messages after the last displayed index are printed and the index moves to
\* the last message; of an assistant's chunk the tool messages are printed.
PrintAgentInteraction(c) ==
    IF c.node = Supervisor
    THEN LET new_start_index == last_supervisor_message_index + 1
         IN  IF new_start_index < Len(c.messages)
             THEN /\ printed' =
                       [ p \in Positions |->
                           IF p \in print_messages(c.messages, new_start_index, FALSE)
                           THEN printed[p] + 1 ELSE printed[p] ]
                  /\ last_supervisor_message_index' = Len(c.messages) - 1
             ELSE UNCHANGED << last_supervisor_message_index, printed >>
    ELSE UNCHANGED << last_supervisor_message_index, printed >>

\* One pass of `while True` up to the stream: the user's line is read; 'exit'
\* in any case, with any whitespace around it, ends the chat, every other
\* line starts the supervisor's stream.
ChatInput(line) ==
    /\ chat_pc = "input"
    /\ LET user_input == Strip(line)
       IN  IF Lower(user_input) = << "e", "x", "i", "t" >>
           THEN /\ chat_pc' = "ended"
                /\ UNCHANGED step_count
           ELSE /\ chat_pc' = "streaming"
                /\ step_count' = 0
    /\ UNCHANGED << last_supervisor_message_index, chunk, printed >>
    /\ UNCHANGED << objvars, callvars, ghostvars, process_call, op_result, toolvars >>

\* One pass of `for chunk in supervisor.stream(...)`.
StreamChunk(c) ==
    /\ chat_pc = "streaming"
    /\ step_count < MaxChunks
    /\ step_count' = step_count + 1
    /\ chunk' = c
    /\ PrintAgentInteraction(c)
    /\ UNCHANGED chat_pc
    /\ UNCHANGED << objvars, callvars, ghostvars, process_call, op_result, toolvars >>

\* The stream is exhausted: back to input().
StreamEnd ==
    /\ chat_pc = "streaming"
    /\ chat_pc' = "input"
    /\ UNCHANGED << last_supervisor_message_index, step_count, chunk, printed >>
    /\ UNCHANGED << objvars, callvars, ghostvars, process_call, op_result, toolvars >>

NextChat ==
    \/ \E line \in ChatInputs : ChatInput(line)
    \/ \E c \in Chunks : StreamChunk(c)
    \/ StreamEnd

SpecChat == Init /\ [][NextChat]_vars

(***************************************************************************)
(* Properties.                                                             *)
(***************************************************************************)
\* The result does not report a failure.
Successful(response) == "error" \notin DOMAIN response.data

\* The constraints of a travel request: fields of the declared types, at
\* least one traveler, no negative budget.
ValidRequest(request) ==
    /\ WellTyped(request)
    /\ request.travelers >= 1
    /\ request.budget.cents >= 0

\* The call of thread t has returned its list.
HasReturned(t) == pc[t] = "returned"

\* Some completion call of the call of thread t raised.
CompletionFailed(t) == \E i \in 1..Len(trace[t]) : trace[t][i].completion = "raised"

\* C1: for every valid TravelRequest, whether the completion calls succeed
\* (with any text) or fail, process_travel_request returns a non-empty list
\* whose first element has role TRAVEL_PLANNER.
C1_ReturnsPlannerFirst ==
    \A t \in Threads :
        HasReturned(t) /\ ValidRequest(travel_request[t])
        => /\ Len(returned[t]) >= 1
           /\ returned[t][1].agent_type = TRAVEL_PLANNER

\* A call with a valid request has returned after its first completion call
\* failed.
C1_Witness ==
    /\ HasReturned(MainThread) /\ ValidRequest(travel_request[MainThread])
    /\ Len(returned[MainThread]) = 1
    /\ ~Successful(returned[MainThread][1])
    /\ trace[MainThread][1].completion = "raised"

\* The paths of the hand-off graph.
HandOffPaths ==
    { << TRAVEL_PLANNER, BUDGET_ANALYST, ACTIVITY_SPECIALIST, BOOKING_COORDINATOR >>,
      << TRAVEL_PLANNER, ACTIVITY_SPECIALIST, BOOKING_COORDINATOR >> }

IsPathPrefix(results) ==
    \E path \in HandOffPaths :
        /\ Len(results) <= Len(path)
        /\ \A i \in 1..Len(results) : results[i].agent_type = path[i]

\* C2: the roles of every returned list are a prefix of a path of the hand-off
\* graph PLANNER -> {BUDGET_ANALYST | ACTIVITY_SPECIALIST} -> ACTIVITY_SPECIALIST
\* -> BOOKING_COORDINATOR; a successful BUDGET_ANALYST result names
\* ACTIVITY_SPECIALIST, a successful ACTIVITY_SPECIALIST result names
\* BOOKING_COORDINATOR, a BOOKING_COORDINATOR result names no successor, and
\* no two consecutive results have the same role.
C2_RolesFollowHandOffGraph ==
    \A t \in Threads :
        HasReturned(t)
        => LET results == returned[t]
           IN  /\ IsPathPrefix(results)
               /\ \A i \in 1..Len(results) :
                    /\ results[i].agent_type = BUDGET_ANALYST /\ Successful(results[i])
                       => results[i].next_agent = ACTIVITY_SPECIALIST
                    /\ results[i].agent_type = ACTIVITY_SPECIALIST /\ Successful(results[i])
                       => results[i].next_agent = BOOKING_COORDINATOR
                    /\ results[i].agent_type = BOOKING_COORDINATOR
                       => results[i].next_agent = None
               /\ \A i \in 1..(Len(results) - 1) :
                    results[i].agent_type # results[i + 1].agent_type

\* A call returned the whole chain, the budget analyst's result in it.
C2_Witness ==
    /\ HasReturned(MainThread)
    /\ Len(returned[MainThread]) = 4
    /\ returned[MainThread][2].agent_type = BUDGET_ANALYST
    /\ Successful(returned[MainThread][4])

\* C3: whatever successors the agents name, one call makes at most
\* MAX_ITERATIONS agent invocations and returns at most MAX_ITERATIONS
\* results.
C3_AtMostMaxIterations ==
    \A t \in Threads :
        /\ Len(trace[t]) <= MAX_ITERATIONS
        /\ HasReturned(t) => Len(returned[t]) <= MAX_ITERATIONS

\* A call was cut off: it returned MAX_ITERATIONS results, the last of which
\* names a successor.
C3_Witness ==
    /\ HasReturned(MainThread)
    /\ Len(trace[MainThread]) = MAX_ITERATIONS
    /\ Len(returned[MainThread]) = MAX_ITERATIONS
    /\ returned[MainThread][MAX_ITERATIONS].next_agent # None

\* C4: if the completion call of the N-th agent invocation of a call fails,
\* no further invocation (and so no further completion call) is made in that
\* call, and the list the call returns has exactly N elements, the N-th with
\* an "error" key in its data and no next_agent.
C4_FailureStopsChain ==
    \A t \in Threads :
        \A n \in 1..Len(trace[t]) :
            trace[t][n].completion = "raised"
            => /\ Len(trace[t]) = n
               /\ HasReturned(t)
                  => /\ Len(returned[t]) = n
                     /\ "error" \in DOMAIN returned[t][n].data
                     /\ returned[t][n].next_agent = None

\* A call returned after the completion call of its third invocation failed.
C4_Witness ==
    /\ HasReturned(MainThread)
    /\ Len(trace[MainThread]) = 3
    /\ trace[MainThread][3].completion = "raised"
    /\ Len(returned[MainThread]) = 3

\* C5: process_travel_request never raises: a failure of a completion call or
\* of the orchestrator's own steps is an "error" entry in the data of a result
\* of the list the call returns.
C5_NeverRaises ==
    \A t \in Threads :
        /\ pc[t] # "raised"
        /\ HasReturned(t) /\ (fault[t] \/ CompletionFailed(t))
           => \E i \in 1..Len(returned[t]) : "error" \in DOMAIN returned[t][i].data

\* A call whose request could not be formatted has returned.
C5_Witness ==
    /\ HasReturned(MainThread)
    /\ fault[MainThread]
    /\ ~WellTyped(travel_request[MainThread])
    /\ Len(returned[MainThread]) = 1

\* C6: a call with a request whose traveler count is below 1 or whose budget
\* is negative fails before any agent is invoked and before any completion
\* call is made.  (Neither TravelRequest nor process_travel_request checks
\* the two fields: the request is formatted and the planner is invoked.)
C6_InvalidRequestRejected ==
    \A t \in Threads :
        /\ pc[t] # "idle"
        /\ WellTyped(travel_request[t])
        /\ travel_request[t].travelers < 1 \/ travel_request[t].budget.cents < 0
        => Len(trace[t]) = 0

\* The call of thread t started right after a reset and has just returned.
ReturnedAfterReset(t) == HasReturned(t) /\ after_reset[t] /\ last_op = "plan"

\* No context passed to an agent in the call of thread t holds the message of
\* a result the reset removed, unless a result of the call itself, made
\* before that invocation, holds that very text.
NoCarriedOverResult(t) ==
    \A i \in 1..Len(trace[t]) :
        \A j \in 1..Len(discarded) :
            Contains(trace[t][i].context, discarded[j].message)
            => \E k \in 1..(i - 1) :
                   Contains(responses[t][k].message, discarded[j].message)

\* C7 as claimed: after a reset followed by a call, the conversation history
\* equals the list that call returns, and no context of the call holds a
\* result of the earlier session.
C7_HistoryEqualsReturned ==
    \A t \in Threads :
        ReturnedAfterReset(t)
        => /\ conversation_history = returned[t]
           /\ NoCarriedOverResult(t)

\* C7 as amended: after a reset followed by a call, the conversation history
\* equals the list that call returns when the call ends by its return
\* statement, and is empty when the call ends in its except branch (it then
\* returns one system-error result, which is not recorded); no context of the
\* call holds a result of the earlier session.
C7_HistoryIsThisCallsResults ==
    \A t \in Threads :
        ReturnedAfterReset(t)
        => /\ ~fault[t] => conversation_history = returned[t]
           /\ fault[t] => conversation_history = << >> /\ Len(returned[t]) = 1
           /\ NoCarriedOverResult(t)

\* A whole chain was removed by a reset, and the next call has returned a
\* whole chain of its own.
C7_Witness ==
    /\ ReturnedAfterReset(MainThread)
    /\ Len(discarded) = 4
    /\ Len(returned[MainThread]) = 4
    /\ conversation_history = returned[MainThread]
    /\ discarded # returned[MainThread]

\* C8: when the completion calls of a call all succeed, whatever texts they
\* return (the empty text included), the call returns exactly 4 results, with
\* roles TRAVEL_PLANNER, BUDGET_ANALYST, ACTIVITY_SPECIALIST,
\* BOOKING_COORDINATOR in this order, none with an "error" key, each with a
\* non-empty message.
C8_FullChainOnSuccess ==
    \A t \in Threads :
        /\ HasReturned(t)
        /\ Len(trace[t]) >= 1
        /\ \A i \in 1..Len(trace[t]) : trace[t][i].completion = "returned"
        => /\ Len(returned[t]) = 4
           /\ [ i \in 1..4 |-> returned[t][i].agent_type ]
                = << TRAVEL_PLANNER, BUDGET_ANALYST, ACTIVITY_SPECIALIST,
                     BOOKING_COORDINATOR >>
           /\ \A i \in 1..4 :
                /\ Successful(returned[t][i])
                /\ Len(returned[t][i].message) > 0

\* A call whose completion calls all returned the empty text has returned.
C8_Witness ==
    /\ HasReturned(MainThread)
    /\ Len(trace[MainThread]) = 4
    /\ \A i \in 1..4 : trace[MainThread][i].completion = "returned"
    /\ returned[MainThread][1].data.preliminary_plan = << >>
    /\ returned[MainThread][2].data.budget_analysis = << >>
    /\ returned[MainThread][3].data.activity_plan = << >>
    /\ returned[MainThread][4].data.booking_plan = << >>

\* C9: in a call, the planner is given the formatted request, which holds the
\* budget as a currency amount ("$4,500.00"), and a successful planner result
\* names BUDGET_ANALYST whatever the completion's text is.
C9_PlannerHandsOffToBudgetAnalyst ==
    \A t \in Threads :
        pc[t] \in { "loop", "awaiting", "exit" } \/ (HasReturned(t) /\ ~fault[t])
        => /\ Len(trace[t]) >= 1
              => /\ trace[t][1].agent_type = TRAVEL_PLANNER
                 /\ trace[t][1].context = format_travel_request(travel_request[t]).value
                 /\ Contains(trace[t][1].context,
                             << "$" >> \o FormatMoney(travel_request[t].budget.cents))
           /\ Len(responses[t]) >= 1 /\ Successful(responses[t][1])
              => responses[t][1].next_agent = BUDGET_ANALYST

\* The planner's completion said "no budget mentioned" on the request of
\* main(), and the planner named BUDGET_ANALYST.
C9_Witness ==
    /\ pc[MainThread] = "loop"
    /\ Len(trace[MainThread]) = 1
    /\ travel_request[MainThread] = MainRequest
    /\ Contains(trace[MainThread][1].context, << "$", "4", ",", "5", "0", "0", ".", "0", "0" >>)
    /\ Len(responses[MainThread]) = 1
    /\ responses[MainThread][1].data.preliminary_plan = << "n", "o", " ", "b", "u", "d", "g", "e", "t", " ", "m", "e", "n", "t", "i", "o", "n",
       "e", "d" >>
    /\ responses[MainThread][1].next_agent = BUDGET_ANALYST

\* The text holds "budget" in some mix of letter cases.
HasBudgetWord(text) ==
    \E i \in 1..(Len(text) - 5) :
        /\ text[i]     \in { "b", "B" }
        /\ text[i + 1] \in { "u", "U" }
        /\ text[i + 2] \in { "d", "D" }
        /\ text[i + 3] \in { "g", "G" }
        /\ text[i + 4] \in { "e", "E" }
        /\ text[i + 5] \in { "t", "T" }

HasDollar(text) == \E i \in 1..Len(text) : text[i] = "$"

\* A successful process call was made on the planner directly.
PlannerSucceeded ==
    /\ process_call.made
    /\ process_call.agent_type = TRAVEL_PLANNER
    /\ ~process_call.completion.raised

\* C10: for every input text, a successful TravelPlannerAgent.process names
\* BUDGET_ANALYST if the input holds "$" or the word "budget" in any letter
\* case, and ACTIVITY_SPECIALIST otherwise.
C10_PlannerHandOffRule ==
    PlannerSucceeded
    => /\ ~process_call.result.raised
       /\ process_call.result.value.next_agent =
            IF HasDollar(process_call.input_data) \/ HasBudgetWord(process_call.input_data)
            THEN BUDGET_ANALYST ELSE ACTIVITY_SPECIALIST

\* The planner was given "xBuDgEt" (no "$") and named BUDGET_ANALYST.
C10_Witness ==
    /\ PlannerSucceeded
    /\ process_call.input_data = << "x", "B", "u", "D", "g", "E", "t" >>
    /\ process_call.result.value.next_agent = BUDGET_ANALYST

\* C11: for each of the four agents, when the completion call fails, process
\* does not raise: it returns a result with the agent's own role, no
\* next_agent, data whose 'error' entry holds the failure description, and a
\* message that reports an error and ends with that description.
C11_AgentFailureIsAResult ==
    process_call.made /\ process_call.completion.raised
    => /\ ~process_call.result.raised
       /\ LET result == process_call.result.value
              e      == process_call.completion.value
          IN  /\ result.agent_type = process_call.agent_type
              /\ result.next_agent = None
              /\ "error" \in DOMAIN result.data
              /\ result.data.error = e
              /\ Contains(result.message, << "E", "r", "r", "o", "r", " ", "i", "n", " " >>)
              /\ Len(result.message) > Len(e)
              /\ SubSeq(result.message, Len(result.message) - Len(e) + 1,
                        Len(result.message)) = e

C11_Witness ==
    /\ process_call.made
    /\ process_call.completion.raised
    /\ process_call.agent_type = BUDGET_ANALYST
    /\ process_call.result.value.data.error = << "R", "e", "q", "u", "e", "s", "t", " ", "t", "i", "m", "e", "d", " ", "o", "u", "t",
       "." >>

\* The call of thread t is in its loop or about to return its results.
InProgress(t) == pc[t] \in { "loop", "awaiting", "exit" }

\* Every agent of self.agents returns a response from process.
EveryAgentResponds == \A a \in AgentType : agents[a].class # "BaseAgent"

\* C12: a plan call terminates.  Whatever successors the agents name, if
\* every completion call eventually returns or fails, a call that entered its
\* loop eventually returns, and when it does either the last agent invoked
\* named no successor or the iteration cap was reached.
C12_PlanTerminates ==
    \A t \in { MainThread } :
        (InProgress(t) /\ EveryAgentResponds)
        ~> /\ HasReturned(t)
           /\ Len(returned[t]) > 0
           /\ \/ returned[t][Len(returned[t])].next_agent = None
              \/ iteration[t] = MAX_ITERATIONS

C12_Witness ==
    /\ HasReturned(MainThread)
    /\ EveryAgentResponds
    /\ iteration[MainThread] = MAX_ITERATIONS
    /\ returned[MainThread][Len(returned[MainThread])].next_agent = TRAVEL_PLANNER

\* Each element of `results` but the last names the role of the next one.
InHandOffOrder(results) ==
    \A i \in 1..(Len(results) - 1) :
        /\ results[i].next_agent # None
        /\ results[i].next_agent = results[i + 1].agent_type

\* C13: the returned sequence is in hand-off chain order (each element but
\* the last names a next_agent, which is the role of the element after it),
\* the results are appended in the order the agents were invoked, and an
\* invocation is complete before the next one starts: only the latest
\* invocation can be waiting for its completion call, and then the call is
\* waiting with it.
C13_HandOffChainOrder ==
    \A t \in Threads :
        /\ InHandOffOrder(responses[t])
        /\ HasReturned(t) => InHandOffOrder(returned[t])
        /\ Len(responses[t]) <= Len(trace[t])
        /\ \A i \in 1..Len(responses[t]) :
              responses[t][i].agent_type = trace[t][i].agent_type
        /\ \A i \in 1..Len(trace[t]) :
              trace[t][i].completion = "pending"
              => i = Len(trace[t]) /\ pc[t] = "awaiting"
        /\ pc[t] = "awaiting" => Len(responses[t]) = Len(trace[t]) - 1
        /\ pc[t] \in { "loop", "exit" } => Len(responses[t]) = Len(trace[t])

C13_Witness ==
    /\ HasReturned(MainThread)
    /\ agents = FixedAgents
    /\ Len(returned[MainThread]) = 4
    /\ returned[MainThread] = responses[MainThread]
    /\ returned[MainThread][3].next_agent = BOOKING_COORDINATOR
    /\ \A i \in 1..4 : trace[MainThread][i].completion = "returned"

\* Cutoff: the call of thread t left its loop by the loop condition, at the
\* iteration cap, while a role was still to be invoked.
Cutoff(t) ==
    /\ exit_reason[t] = "condition"
    /\ iteration[t] = MAX_ITERATIONS
    /\ current_agent_type[t] # None

\* C14: what a plan call returns tells a cutoff from the other endings: the
\* last returned result names a next_agent exactly when the call ended by
\* cutoff; after a natural end (an agent named no successor, or an agent
\* reported an error) and after an orchestrator error it names none.
C14_CutoffIsDistinguishable ==
    \A t \in Threads :
        HasReturned(t)
        => /\ Len(returned[t]) > 0
           /\ Cutoff(t) <=> returned[t][Len(returned[t])].next_agent # None
           /\ ~Cutoff(t) => exit_reason[t] = "break" \/ fault[t]

C14_Witness ==
    /\ HasReturned(MainThread)
    /\ Cutoff(MainThread)
    /\ Len(returned[MainThread]) = MAX_ITERATIONS
    /\ returned[MainThread][MAX_ITERATIONS].next_agent = ACTIVITY_SPECIALIST

\* No result of `results` names its own role as the next one.
NoSelfLoop(results) ==
    \A i \in 1..Len(results) : results[i].next_agent # results[i].agent_type

\* C15: no AgentResponse produced by an agent of the program or by the
\* orchestrator, on success or on failure, names its own agent_type as
\* next_agent: none among the responses a call gathers, the list it returns
\* (the orchestrator's error result included) and the conversation history.
C15_NoSelfLoop ==
    /\ NoSelfLoop(conversation_history)
    /\ \A t \in Threads : NoSelfLoop(responses[t]) /\ NoSelfLoop(returned[t])

C15_Witness ==
    /\ HasReturned(MainThread)
    /\ fault[MainThread]
    /\ returned[MainThread][1].agent_type = TRAVEL_PLANNER
    /\ Len(conversation_history) = 4
    /\ Successful(conversation_history[3])
    /\ conversation_history[3].next_agent = BOOKING_COORDINATOR
    /\ ~Successful(conversation_history[4])

\* Sequence a is a prefix of sequence b.
IsPrefix(a, b) == Len(a) <= Len(b) /\ SubSeq(b, 1, Len(a)) = a

\* The step is a reset.  (The caller's operations follow one another, and
\* after a reset every step but another reset is or begins with an
\* operation that the caller's record of its last operation shows.)
ResetStep == last_op' = "reset"

\* The step is the normal return of the call of thread t.
NormalReturnStep(t) == pc[t] \in { "loop", "exit" } /\ pc'[t] = "returned"

\* C16: the conversation history is append-only between resets: every step
\* of a plan, summary or export call leaves the earlier history as a prefix
\* of the later one, and the normal return of a plan call extends the
\* history by exactly the sequence the call returns, in the same order.
C16_AppendOnlyBetweenResets ==
    [][ /\ ~ResetStep => IsPrefix(conversation_history, conversation_history')
        /\ \A t \in Threads :
              NormalReturnStep(t)
              => conversation_history' = conversation_history \o returned'[t]
      ]_vars

C16_Witness ==
    /\ HasReturned(MainThread)
    /\ ~fault[MainThread]
    /\ discarded = << >>
    /\ Len(returned[MainThread]) = 4
    /\ Len(conversation_history) = 6
    /\ SubSeq(conversation_history, 3, 6) = returned[MainThread]
    /\ op_result.op = "export"

\* The caller's last operation was get_conversation_summary; op_result holds
\* what it returned, and the history is as the summary saw it.
SummaryTaken == op_result.op = "summary"

\* C17: the summary's total is the number of results in the conversation
\* history, and its status is "complete" exactly when the history is not
\* empty and "not_started" exactly when it is empty: before any plan call,
\* after plan calls, after a reset.
C17_SummaryTotalAndStatus ==
    SummaryTaken
    => /\ op_result.value.total_responses = Len(conversation_history)
       /\ op_result.value.final_status = << "c", "o", "m", "p", "l", "e", "t", "e" >> <=> conversation_history # << >>
       /\ op_result.value.final_status = << "n", "o", "t", "_", "s", "t", "a", "r", "t", "e", "d" >> <=> conversation_history = << >>

C17_Witness ==
    /\ SummaryTaken
    /\ Len(discarded) = 4
    /\ op_result.value.total_responses = 0
    /\ op_result.value.final_status = << "n", "o", "t", "_", "s", "t", "a", "r", "t", "e", "d" >>

\* The number of entries of the summary's roles field that name role a.
TimesListed(summary, a) ==
    Cardinality({ j \in 1..Len(summary.agents_involved) :
                    summary.agents_involved[j] = AgentTypeValue(a) })

\* C18: the summary lists the distinct roles invoked: each role that appears
\* in the accumulated history is listed exactly once in the roles field
\* (agents_involved), also when the history holds the results of several
\* plan calls; a role that does not appear is not listed.
C18_EachRoleListedOnce ==
    SummaryTaken
    => \A a \in AgentType :
          TimesListed(op_result.value, a) =
            IF \E i \in 1..Len(conversation_history) :
                    conversation_history[i].agent_type = a
            THEN 1 ELSE 0

\* The step is a summary or an export.  (As for ResetStep: during a plan
\* call the caller's last operation is that call.)
SummaryStep == last_op' = "summary"
ExportStep  == last_op' = "export"

\* C19: a reset empties the conversation history and leaves the agent
\* configuration (self.agents: the agent of each role, whose instructions
\* are those of its class) unchanged; a summary and an export leave both
\* the history and the agent configuration unchanged.
C19_ResetSummaryExportFrame ==
    [][ /\ ResetStep => conversation_history' = << >> /\ agents' = agents
        /\ SummaryStep \/ ExportStep
           => conversation_history' = conversation_history /\ agents' = agents
      ]_vars

C19_Witness ==
    /\ last_op = "export"
    /\ op_result.op = "export"
    /\ op_result.file # << >>
    /\ Len(discarded) = 2
    /\ Len(conversation_history) = 4
    /\ agents = FixedAgents

\* C20: every AgentResponse a plan call returns has a non-empty message: on
\* success, also when the completion is the empty string, on an agent's
\* failure and on the orchestrator's own error.
C20_MessageNeverEmpty ==
    \A t \in Threads :
        HasReturned(t)
        => \A i \in 1..Len(returned[t]) : returned[t][i].message # << >>

C20_Witness ==
    /\ HasReturned(MainThread)
    /\ Len(returned[MainThread]) = 3
    /\ returned[MainThread][1].data.preliminary_plan = << >>
    /\ returned[MainThread][2].data.budget_analysis = << >>
    /\ ~Successful(returned[MainThread][3])
    /\ returned[MainThread][3].message # << >>

\* The digest line of a result: its role name and its message.
DigestOf(result) ==
    << "\n" >> \o AgentTypeValue(result.agent_type) \o << ":", " " >> \o result.message

\* The text the k-th invocation of a call is to receive, given the request
\* and the results of the invocations before it.
ExpectedContext(request, results, k) ==
    IF k = 1 THEN format_travel_request(request).value
    ELSE results[k - 1].message \o << "\n" >> \o << "\n", "P", "r", "e", "v", "i", "o", "u", "s", " ", "A", "g", "e", "n", "t", " ", "A",
       "n", "a", "l", "y", "s", "i", "s", ":" >>
         \o (IF k = 2 THEN << >> ELSE << "\n" >> \o DigestOf(results[k - 2]))
         \o << "\n" >> \o DigestOf(results[k - 1])

\* C21: the text passed to the k-th agent invocation of a plan call is, for
\* k = 1, the formatted request alone, and for k > 1 the message of result
\* k-1 followed by the heading and the digest lines (role name and message)
\* of results k-2 (if any) and k-1, in that order, and of no older result.
C21_ContextOfEachInvocation ==
    \A t \in Threads :
        \A k \in 1..Len(trace[t]) :
            /\ Len(responses[t]) >= k - 1
            /\ trace[t][k].context = ExpectedContext(travel_request[t], responses[t], k)

C21_Witness ==
    /\ HasReturned(MainThread)
    /\ Len(trace[MainThread]) = 4
    /\ Contains(trace[MainThread][4].context, << "b", "u", "d", "g", "e", "t", "_", "a", "n", "a", "l", "y", "s", "t", ":", " " >>)
    /\ Contains(trace[MainThread][4].context, << "a", "c", "t", "i", "v", "i", "t", "y", "_", "s", "p", "e", "c", "i", "a", "l", "i",
       "s", "t", ":", " " >>)
    /\ ~Contains(trace[MainThread][4].context, << "t", "r", "a", "v", "e", "l", "_", "p", "l", "a", "n", "n", "e", "r", ":", " " >>)
    /\ ~Contains(trace[MainThread][4].context, << "T", "o", "k", "y", "o" >>)

\* C22: the conversation history is changed only by the orchestrator's plan
\* operation and by the caller's reset.  While an agent's process runs, and
\* in every other step of a call before its return, the history stays as it
\* is; a step that changes it is a reset or the normal return of a call,
\* which appends that call's own results.
C22_HistoryChangedByPlanAndResetOnly ==
    [][ /\ \A t \in Threads :
              pc[t] = "awaiting" => conversation_history' = conversation_history
        /\ conversation_history' # conversation_history
           => \/ ResetStep
              \/ \E t \in Threads :
                    /\ NormalReturnStep(t)
                    /\ conversation_history' = conversation_history \o responses[t]
      ]_vars

C22_Witness ==
    /\ pc[MainThread] = "awaiting"
    /\ Len(responses[MainThread]) = 2
    /\ Len(conversation_history) = 2
    /\ Len(discarded) = 1
    /\ trace[MainThread][3].completion = "pending"

\* C23: with the four agents of the program a plan call performs at most 4
\* agent invocations and invokes no role twice, so the loop never ends by
\* its condition at the iteration cap: cutoff is unreachable.
C23_CapNeverReached ==
    \A t \in Threads :
        /\ Len(trace[t]) <= Cardinality(AgentType)
        /\ Cardinality(AgentType) = 4
        /\ iteration[t] = Len(trace[t])
        /\ \A i, j \in 1..Len(trace[t]) :
              trace[t][i].agent_type = trace[t][j].agent_type => i = j
        /\ exit_reason[t] # "condition"
        /\ ~Cutoff(t)

C23_Witness ==
    /\ HasReturned(MainThread)
    /\ exit_reason[MainThread] = "break"
    /\ iteration[MainThread] = 4
    /\ trace[MainThread][4].agent_type = BOOKING_COORDINATOR
    /\ trace[MainThread][4].completion = "raised"

\* C24: in every sequence a plan call returns, only the last element can
\* carry an 'error' entry or lack a next_agent: every element before the last
\* is a successful result that names a next_agent, and the last element is
\* an error result or a successful result of the BOOKING_COORDINATOR.
C24_OnlyLastMayFail ==
    \A t \in Threads :
        HasReturned(t)
        => /\ Len(returned[t]) > 0
           /\ \A i \in 1..(Len(returned[t]) - 1) :
                 Successful(returned[t][i]) /\ returned[t][i].next_agent # None
           /\ LET last == returned[t][Len(returned[t])]
              IN  \/ ~Successful(last)
                  \/ Successful(last) /\ last.agent_type = BOOKING_COORDINATOR

C24_Witness ==
    /\ HasReturned(MainThread)
    /\ Len(returned[MainThread]) = 3
    /\ returned[MainThread][3].agent_type = ACTIVITY_SPECIALIST
    /\ "error" \in DOMAIN returned[MainThread][3].data
    /\ returned[MainThread][2].next_agent = ACTIVITY_SPECIALIST

\* The step belongs to a plan call and is not its normal return.
CallStepButNormalReturn ==
    last_op' = "plan" /\ ~(\E t \in Threads : NormalReturnStep(t))

\* C25: when an exception is raised inside the orchestrator during a plan
\* call (the request cannot be formatted, or an agent's process raises), the
\* call returns exactly one result, with role TRAVEL_PLANNER, an 'error'
\* entry holding the exception's text and no next_agent; the responses
\* gathered so far are not among what it returns; and no step of the call
\* changed the conversation history, which is as it was before the call.
C25_OrchestratorErrorResult ==
    [][ /\ CallStepButNormalReturn => conversation_history' = conversation_history
        /\ \A t \in Threads :
              pc'[t] = "returned" /\ fault'[t]
              => /\ Len(returned'[t]) = 1
                 /\ returned'[t][1].agent_type = TRAVEL_PLANNER
                 /\ "error" \in DOMAIN returned'[t][1].data
                 /\ returned'[t][1].next_agent = None
                 /\ Len(returned'[t][1].message) > Len(returned'[t][1].data.error)
                 /\ \A i \in 1..Len(responses'[t]) : responses'[t][i] # returned'[t][1]
      ]_vars

C25_Witness ==
    /\ HasReturned(MainThread)
    /\ fault[MainThread]
    /\ agents[ACTIVITY_SPECIALIST] = BaseAgent
    /\ Len(responses[MainThread]) = 2
    /\ Len(returned[MainThread]) = 1
    /\ Len(conversation_history) = 1
    /\ returned[MainThread][1].data.error = << "S", "u", "b", "c", "l", "a", "s", "s", "e", "s", " ", "m", "u", "s", "t", " ", "i",
       "m", "p", "l", "e", "m", "e", "n", "t", " ", "p", "r", "o", "c", "e", "s", "s", " ",
       "m", "e", "t", "h", "o", "d" >>

\* The calls of threads t and u were given the same request, and the
\* completion service behaved alike in their first n invocations.
SameBehaviour(t, u, n) ==
    /\ travel_request[t] = travel_request[u]
    /\ \A i \in 1..n : trace[t][i].outcome = trace[u][i].outcome

\* The smaller of two numbers.
Min(a, b) == IF a <= b THEN a ELSE b

\* C26: what a plan call returns and the contexts it passes to the agents do
\* not depend on the contents of the conversation history.  Of two calls
\* that run against different histories (no reset is done between them, and
\* the history changes when the other call returns), given the same request
\* and the same behaviour of the completion service: as far as the service
\* behaved alike, the same roles are invoked with the same contexts, and
\* when both have returned they have returned equal sequences.
C26_IndependentOfHistory ==
    \A t, u \in Threads :
        /\ \A k \in 1..Min(Len(trace[t]), Len(trace[u])) :
              SameBehaviour(t, u, k - 1)
              => /\ trace[t][k].agent_type = trace[u][k].agent_type
                 /\ trace[t][k].context = trace[u][k].context
        /\ /\ HasReturned(t) /\ HasReturned(u)
           /\ SameBehaviour(t, u, Min(Len(trace[t]), Len(trace[u])))
           => returned[t] = returned[u]

C26_Witness ==
    /\ HasReturned("main") /\ HasReturned("other")
    /\ Len(trace["main"]) = 4 /\ Len(trace["other"]) = 4
    /\ SameBehaviour("main", "other", 4)
    /\ Len(returned["main"]) = 4
    /\ returned["main"] = returned["other"]
    /\ conversation_history = returned["main"] \o returned["other"]
    /\ trace["main"][4].context = trace["other"][4].context

\* The i-th invocation of the call of thread t produced `result`.
OwnResult(t, i, result) ==
    /\ i <= Len(trace[t])
    /\ trace[t][i].outcome # NoOutcome
    /\ result = Process(agents[trace[t][i].agent_type], trace[t][i].agent_type,
                        trace[t][i].context, trace[t][i].outcome).value

\* What the call of thread t has put into the history after the step.
BlockOf(t) ==
    IF pc'[t] = "returned" /\ ~fault'[t] THEN returned'[t] ELSE << >>

\* C27: two plan calls on the same orchestrator, interleaved at the agent
\* invocations without locking.  The sequence a call returns holds its own
\* results only, in its own chain order; a call that returns appends its
\* results to the end of the history as one block, so the blocks are in the
\* order in which the calls finished; and the history is the block of one
\* call followed by the block of the other, never a mixture.
C27_InterleavedCallsKeepBlocks ==
    [][ /\ \A t \in Threads :
              NormalReturnStep(t)
              => /\ conversation_history' = conversation_history \o returned'[t]
                 /\ InHandOffOrder(returned'[t])
                 /\ \A i \in 1..Len(returned'[t]) : OwnResult(t, i, returned'[t][i])
        /\ \/ conversation_history' = BlockOf("main") \o BlockOf("other")
           \/ conversation_history' = BlockOf("other") \o BlockOf("main")
      ]_vars

C27_Witness ==
    /\ pc["main"] = "exit"
    /\ Len(responses["main"]) = 4
    /\ pc["other"] = "awaiting"
    /\ Len(responses["other"]) = 2
    /\ conversation_history = << >>

\* The tool calls the model's first response requested.
RequestedToolCalls == model_response.tool_calls

\* The list the final model call must have received by the claim.
FinalCallAnswersEveryToolCall ==
    LET final == model_calls[2]
        asked == RequestedToolCalls
    IN  IF asked = << >>
        THEN final = << messages[1] >> /\ messages[1].type = "human"
        ELSE /\ Len(final) = 2 + Len(asked)
             /\ final[1].type = "human"
             /\ final[2] = model_response
             /\ \A k \in 1..Len(asked) :
                  /\ final[2 + k].type = "tool"
                  /\ final[2 + k].tool_call_id = asked[k].id

\* C28: when execute_tool_calls has returned, the model was invoked exactly
\* twice, and the final call received the user message, the model's response
\* and exactly one ToolMessage per requested tool call, in tool-call order,
\* each with that call's id; with no tool call requested it received the
\* user message alone.
C28_EveryToolCallAnswered ==
    tool_pc = "returned" =>
        /\ Len(model_calls) = 2
        /\ FinalCallAnswersEveryToolCall

\* The step handles a streamed chunk (chunk' is that chunk).
ChunkStep == chat_pc = "streaming" /\ step_count' = step_count + 1

Max(a, b) == IF a >= b THEN a ELSE b

\* C29: last_supervisor_message_index never decreases; a chunk of another
\* node and a user turn leave it unchanged; after a supervisor chunk with n
\* messages it is the larger of its previous value and n - 1; and no
\* supervisor message position is printed more than once in the session.
C29_LastSupervisorIndex ==
    [][ /\ last_supervisor_message_index' >= last_supervisor_message_index
        /\ IF ChunkStep /\ chunk'.node = Supervisor
           THEN last_supervisor_message_index' =
                    Max(last_supervisor_message_index, Len(chunk'.messages) - 1)
           ELSE last_supervisor_message_index' = last_supervisor_message_index
        /\ \A p \in Positions : printed'[p] <= 1 ]_vars

\* A supervisor chunk with fewer messages than were displayed already has
\* been handled after both positions were printed, and the index stayed.
C29_Witness ==
    /\ chunk.bound
    /\ chunk.node = Supervisor
    /\ Len(chunk.messages) = 1
    /\ step_count = 2
    /\ last_supervisor_message_index = 1
    /\ \A p \in Positions : p <= 1 => printed[p] = 1

====
